---- MODULE Spec2Model ----
\* Verification model of the datacoord meta engine (internal/datacoord/meta.go):
\* the in-memory segment map with its catalog, the operator pipeline of
\* UpdateSegmentsInfo, the compaction completer and the channel-checkpoint
\* manager.
EXTENDS Integers, Sequences, FiniteSets, TLC

\* ---------------------------------------------------------------------------
\* Bounds of the model
\* ---------------------------------------------------------------------------
\* largest timestamp a message position carries
MaxTs == 2
\* number of channel-checkpoint calls started in one behaviour
MaxCPCalls == 3
\* number of meta operations in one behaviour
MaxOps == 2

Channels == {"ch1", "ch2"}
\* the concurrent callers of the channel-checkpoint manager
Procs == {1, 2}
Timestamps == 0..MaxTs
\* message ids of positions: every caller reports positions of its own;
\* 0 stands for a nil MsgID
MsgIDs == Procs

\* ---------------------------------------------------------------------------
\* msgpb.MsgPosition.  ok = FALSE is the nil pointer (GetTimestamp() of a nil
\* position is 0); msg = 0 is a nil MsgID.
\* ---------------------------------------------------------------------------
NilPos == [ok |-> FALSE, ts |-> 0, msg |-> 0]
MkPos(t, m) == [ok |-> TRUE, ts |-> t, msg |-> m]
ValidPositions == {MkPos(t, m) : t \in Timestamps, m \in MsgIDs}
\* what caller p may pass: nil, a position without message id, a valid one
ArgPositions(p) == {NilPos, MkPos(MaxTs, 0)} \cup {MkPos(t, p) : t \in Timestamps}

Max2(a, b) == IF a >= b THEN a ELSE b

VARIABLES
    \* ---- channel-checkpoint manager ----
    channelCPs,     \* meta.channelCPs: vChannel -> position (NilPos: no entry)
    catalogCPs,     \* checkpoints persisted in the catalog
    cpLock,         \* meta.channelCPLocks: vChannel -> holder (0: free)
    cpPc,           \* per caller: position inside the call
    cpCall,         \* per caller: operation, channel, position, value read under the lock
    cpRet,          \* outcome of the call that returned last
    cpNCalls,       \* calls started so far
    cpHist          \* per channel: what has been accepted / asked for so far

VARIABLES
    \* ---- segment meta ----
    segments,       \* meta.segments: segment id -> SegmentInfo (in memory)
    catalog,        \* segment records persisted in the catalog
    chanDeleted,    \* channels whose removal flag is persisted
    blobs,          \* delta-log blobs written by the compaction completer
    numSegments,    \* metrics.DataCoordNumSegments: <<level, state>> -> gauge
    storedRows,     \* metrics.DataCoordNumStoredRowsCounter
    nOps,           \* meta operations finished so far (the wall clock)
    last            \* the call that returned last: arguments and outcome

VARIABLES
    \* ---- compaction trigger ----
    signals,        \* compactionTrigger.signals: the buffered channel of signals
    sendq,          \* senders blocked on the full channel, in arrival order
    delivered,      \* ids of the signals the consumer has received, in order
    trigCalls,      \* trigger calls made so far
    trigRet,        \* the trigger call that returned last
    handling,       \* the signal the consumer has taken and not yet handled
    round,          \* the handling round that ran last
    submitted       \* plans handed to compactionHandler.execCompactionPlan, in order

VARIABLES
    \* ---- meta's read-write lock, seen by a stepwise writer and a reader ----
    mu,             \* meta.RWMutex: whether a writer holds it, how many readers do
    usi,            \* the UpdateSegmentsInfo call in progress, statement by statement
    seen,           \* the segment map a reader last got
    committed       \* history: the segment maps at the boundaries of writer calls

VARIABLES
    \* ---- LocalSegment: the native segment behind its pointer lock ----
    ptr,            \* LocalSegment.ptr: whether it holds the native segment (FALSE: nil)
    ptrLock,        \* LocalSegment.ptrLock: whether a writer holds it, how many readers do
    lsType,         \* LocalSegment.Type(): Growing or Sealed
    lsPc,           \* per caller: position inside the call
    lsCall,         \* per caller: the call made last, whether it started with the
                    \* pointer cleared, the pointer Release took, the outcome
    native,         \* the native segment: DeleteSegment and ClearSegmentData calls so far
    lsNCalls        \* calls started so far

cpVars == <<channelCPs, catalogCPs, cpLock, cpPc, cpCall, cpRet, cpNCalls, cpHist>>
metaVars == <<segments, catalog, chanDeleted, blobs, numSegments, storedRows, nOps, last>>
rwVars == <<mu, usi, seen, committed>>
trigVars == <<signals, sendq, delivered, handling, trigCalls, trigRet, round, submitted>>
lsVars == <<ptr, ptrLock, lsType, lsPc, lsCall, native, lsNCalls>>
vars == <<channelCPs, catalogCPs, cpLock, cpPc, cpCall, cpRet, cpNCalls, cpHist,
          segments, catalog, chanDeleted, blobs, numSegments, storedRows, nOps, last,
          mu, usi, seen, committed,
          signals, sendq, delivered, handling, trigCalls, trigRet, round, submitted,
          ptr, ptrLock, lsType, lsPc, lsCall, native, lsNCalls>>

\* ---------------------------------------------------------------------------
\* Channel-checkpoint manager
\* ---------------------------------------------------------------------------
NoCall == [op |-> "none", ch |-> "ch1", pos |-> NilPos, old |-> NilPos]
NoRet == [op |-> "none", ch |-> "ch1", pos |-> NilPos, err |-> FALSE,
          saves |-> 0, pre |-> NilPos, post |-> NilPos, got |-> NilPos]
NoHist == [accepted |-> -1, sinceDrop |-> -1, asked |-> -1, okTs |-> -1, dropped |-> FALSE]

InitCP ==
    /\ channelCPs = [c \in Channels |-> NilPos]
    /\ catalogCPs = [c \in Channels |-> NilPos]
    /\ cpLock = [c \in Channels |-> 0]
    /\ cpPc = [p \in Procs |-> "idle"]
    /\ cpCall = [p \in Procs |-> NoCall]
    /\ cpRet = NoRet
    /\ cpNCalls = 0
    /\ cpHist = [c \in Channels |-> NoHist]

\* if !ok || oldPosition.Timestamp < pos.Timestamp
NeedAdvanceStale(old, pos) == ~old.ok \/ old.ts <= pos.ts
NeedAdvanceAlways(old, pos) == TRUE
NeedAdvance(old, pos) == ~old.ok \/ old.ts < pos.ts

\* m.channelCPLocks.Lock(vChannel): a lock per channel name
KeyLockNone(ch) == TRUE
KeyLockFree(ch) == cpLock[ch] = 0

\* a call returns: the lock (if held) is released and the outcome recorded
CPReturn(p, err, saves, post, got) ==
    LET c == cpCall[p] IN
    /\ cpPc' = [cpPc EXCEPT ![p] = "idle"]
    /\ cpRet' = [op |-> c.op, ch |-> c.ch, pos |-> c.pos, err |-> err,
                 saves |-> saves, pre |-> c.old, post |-> post, got |-> got]
    /\ cpCall' = [cpCall EXCEPT ![p] = NoCall]

\* UpdateChannelCheckpoint is called; a nil position or nil MsgID is refused
\* before the lock is asked for
UpdateChannelCheckpointCall(p, ch, pos) ==
    /\ cpPc[p] = "idle"
    /\ cpNCalls < MaxCPCalls
    /\ cpNCalls' = cpNCalls + 1
    /\ IF ~pos.ok \/ pos.msg = 0
       THEN /\ UNCHANGED cpHist
       ELSE cpHist' = [cpHist EXCEPT ![ch].asked = Max2(@, pos.ts)]
    /\ IF ~pos.ok \/ pos.msg = 0
       THEN /\ cpRet' = [op |-> "update", ch |-> ch, pos |-> pos, err |-> TRUE, saves |-> 0,
                         pre |-> channelCPs[ch], post |-> channelCPs[ch], got |-> NilPos]
            /\ UNCHANGED <<cpPc, cpCall>>
       ELSE /\ cpPc' = [cpPc EXCEPT ![p] = "updLock"]
            /\ cpCall' = [cpCall EXCEPT ![p] =
                   [op |-> "update", ch |-> ch, pos |-> pos, old |-> NilPos]]
            /\ UNCHANGED cpRet
    /\ UNCHANGED <<channelCPs, catalogCPs, cpLock>>

\* m.channelCPLocks.Lock(vChannel); oldPosition, ok := m.channelCPs.Get(vChannel)
UpdateChannelCheckpointLock(p) ==
    LET ch == cpCall[p].ch IN
    /\ cpPc[p] = "updLock"
    /\ KeyLockFree(ch)
    /\ cpLock' = [cpLock EXCEPT ![ch] = p]
    /\ cpCall' = [cpCall EXCEPT ![p].old = channelCPs[ch]]
    /\ cpPc' = [cpPc EXCEPT ![p] = "updCheck"]
    /\ UNCHANGED <<channelCPs, catalogCPs, cpRet, cpNCalls, cpHist>>

\* the timestamp comparison; a stale position returns nil at once
UpdateChannelCheckpointCheck(p) ==
    LET c == cpCall[p] IN
    /\ cpPc[p] = "updCheck"
    /\ IF NeedAdvance(c.old, c.pos)
       THEN /\ cpPc' = [cpPc EXCEPT ![p] = "updSave"]
            /\ UNCHANGED <<cpLock, cpCall, cpRet, cpHist>>
       ELSE /\ CPReturn(p, FALSE, 0, channelCPs[c.ch], NilPos)
            /\ cpLock' = [cpLock EXCEPT ![c.ch] = 0]
            /\ cpHist' = [cpHist EXCEPT ![c.ch].okTs = Max2(@, c.pos.ts)]
    /\ UNCHANGED <<channelCPs, catalogCPs, cpNCalls>>

\* m.catalog.SaveChannelCheckpoint: fails (nothing persisted) or persists pos
UpdateChannelCheckpointSaveAfterInsert(p) ==
    LET c == cpCall[p] IN
    /\ cpPc[p] = "updSave"
    /\ channelCPs' = [channelCPs EXCEPT ![c.ch] = c.pos]
    /\ \E fail \in BOOLEAN :
         IF fail
         THEN /\ CPReturn(p, TRUE, 1, c.pos, NilPos)
              /\ cpLock' = [cpLock EXCEPT ![c.ch] = 0]
              /\ UNCHANGED catalogCPs
         ELSE /\ catalogCPs' = [catalogCPs EXCEPT ![c.ch] = c.pos]
              /\ cpPc' = [cpPc EXCEPT ![p] = "updInstall"]
              /\ UNCHANGED <<cpLock, cpCall, cpRet>>
    /\ UNCHANGED <<cpNCalls, cpHist>>
UpdateChannelCheckpointSave(p) ==
    LET c == cpCall[p] IN
    /\ cpPc[p] = "updSave"
    /\ \E fail \in BOOLEAN :
         IF fail
         THEN /\ CPReturn(p, TRUE, 1, channelCPs[c.ch], NilPos)
              /\ cpLock' = [cpLock EXCEPT ![c.ch] = 0]
              /\ UNCHANGED catalogCPs
         ELSE /\ catalogCPs' = [catalogCPs EXCEPT ![c.ch] = c.pos]
              /\ cpPc' = [cpPc EXCEPT ![p] = "updInstall"]
              /\ UNCHANGED <<cpLock, cpCall, cpRet>>
    /\ UNCHANGED <<channelCPs, cpNCalls, cpHist>>

\* m.channelCPs.Insert(vChannel, pos); return nil (deferred Unlock)
UpdateChannelCheckpointInstall(p) ==
    LET c == cpCall[p] IN
    /\ cpPc[p] = "updInstall"
    /\ channelCPs' = [channelCPs EXCEPT ![c.ch] = c.pos]
    /\ CPReturn(p, FALSE, 1, c.pos, NilPos)
    /\ cpLock' = [cpLock EXCEPT ![c.ch] = 0]
    /\ cpHist' = [cpHist EXCEPT ![c.ch].accepted = Max2(@, c.pos.ts),
                                ![c.ch].sinceDrop = Max2(@, c.pos.ts),
                                ![c.ch].okTs = Max2(@, c.pos.ts)]
    /\ UNCHANGED <<catalogCPs, cpNCalls>>

\* GetChannelCheckpoint: lock, read, clone, unlock
GetChannelCheckpoint(p, ch) ==
    /\ cpPc[p] = "idle"
    /\ cpNCalls < MaxCPCalls
    /\ KeyLockFree(ch)
    /\ cpNCalls' = cpNCalls + 1
    /\ cpRet' = [op |-> "get", ch |-> ch, pos |-> NilPos, err |-> FALSE, saves |-> 0,
                 pre |-> channelCPs[ch], post |-> channelCPs[ch], got |-> channelCPs[ch]]
    /\ UNCHANGED <<channelCPs, catalogCPs, cpLock, cpPc, cpCall, cpHist>>

\* DropChannelCheckpoint is called and takes the channel's lock
DropChannelCheckpointLock(p, ch) ==
    /\ cpPc[p] = "idle"
    /\ cpNCalls < MaxCPCalls
    /\ KeyLockFree(ch)
    /\ cpNCalls' = cpNCalls + 1
    /\ cpLock' = [cpLock EXCEPT ![ch] = p]
    /\ cpCall' = [cpCall EXCEPT ![p] =
                   [op |-> "drop", ch |-> ch, pos |-> NilPos, old |-> channelCPs[ch]]]
    /\ cpPc' = [cpPc EXCEPT ![p] = "dropCatalog"]
    /\ cpHist' = [cpHist EXCEPT ![ch].dropped = TRUE]
    /\ UNCHANGED <<channelCPs, catalogCPs, cpRet>>

\* m.catalog.DropChannelCheckpoint: fails, or removes the persisted checkpoint
DropChannelCheckpointCatalog(p) ==
    LET c == cpCall[p] IN
    /\ cpPc[p] = "dropCatalog"
    /\ \E fail \in BOOLEAN :
         IF fail
         THEN /\ CPReturn(p, TRUE, 0, channelCPs[c.ch], NilPos)
              /\ cpLock' = [cpLock EXCEPT ![c.ch] = 0]
              /\ UNCHANGED catalogCPs
         ELSE /\ catalogCPs' = [catalogCPs EXCEPT ![c.ch] = NilPos]
              /\ cpPc' = [cpPc EXCEPT ![p] = "dropRemove"]
              /\ UNCHANGED <<cpLock, cpCall, cpRet>>
    /\ UNCHANGED <<channelCPs, cpNCalls, cpHist>>

\* m.channelCPs.Remove(vChannel); return nil (deferred Unlock)
DropChannelCheckpointRemove(p) ==
    LET c == cpCall[p] IN
    /\ cpPc[p] = "dropRemove"
    /\ channelCPs' = [channelCPs EXCEPT ![c.ch] = NilPos]
    /\ CPReturn(p, FALSE, 0, NilPos, NilPos)
    /\ cpLock' = [cpLock EXCEPT ![c.ch] = 0]
    /\ cpHist' = [cpHist EXCEPT ![c.ch].sinceDrop = -1]
    /\ UNCHANGED <<catalogCPs, cpNCalls>>

\* ---------------------------------------------------------------------------
\* Claims about the channel-checkpoint manager (SpecCP)
\* ---------------------------------------------------------------------------
\* no call is between Lock and Unlock on channel c
NoCallInside(c) ==
    \A p \in Procs : cpPc[p] \in {"idle", "updLock"} \/ cpCall[p].ch # c
AllReturned == \A p \in Procs : cpPc[p] = "idle"

\* C8 (as stated): on every channel the current checkpoint is at least as late
\* as every position ever accepted on it, DropChannelCheckpoint calls included.
C8_Original ==
    \A c \in Channels : channelCPs[c].ok => channelCPs[c].ts >= cpHist[c].accepted

\* C8 (amended): on every channel the current checkpoint exists and is at least
\* as late as every position accepted on it since the last successful
\* DropChannelCheckpoint of that channel; a drop removes the checkpoint, and
\* the next position of any timestamp is accepted.
C8_MonotonicSinceDrop ==
    \A c \in Channels :
        cpHist[c].sinceDrop >= 0 =>
            channelCPs[c].ok /\ channelCPs[c].ts >= cpHist[c].sinceDrop

\* a channel whose checkpoint was dropped and that then accepted an earlier position
C8_Witness ==
    \E c \in Channels :
        /\ cpHist[c].dropped
        /\ cpHist[c].sinceDrop >= 0
        /\ channelCPs[c].ts < cpHist[c].accepted

\* the call that returned last was an UpdateChannelCheckpoint with a position
\* not later than the checkpoint it found
StaleUpdateReturned ==
    /\ cpRet.op = "update"
    /\ cpRet.pos.ok
    /\ cpRet.pre.ok
    /\ cpRet.pos.ts <= cpRet.pre.ts

\* C9 (as stated): every non-nil position that is not later than the current
\* checkpoint returns success, saves nothing and leaves the checkpoint alone.
C9_Original ==
    StaleUpdateReturned =>
        ~cpRet.err /\ cpRet.saves = 0 /\ cpRet.post = cpRet.pre

\* C9 (amended): UpdateChannelCheckpoint with a non-nil position that carries a
\* message id and whose timestamp is not greater than that of the current
\* checkpoint returns success, makes no SaveChannelCheckpoint call and leaves
\* the in-memory checkpoint unchanged; without a message id it returns an error
\* (still without a save and without a change).
C9_StaleIsNoOp ==
    StaleUpdateReturned =>
        /\ cpRet.saves = 0
        /\ cpRet.post = cpRet.pre
        /\ cpRet.err = (cpRet.pos.msg = 0)

\* a stale position with a message id has been handled, at an equal timestamp
C9_Witness ==
    /\ StaleUpdateReturned
    /\ cpRet.pos.msg # 0
    /\ cpRet.pos.ts = cpRet.pre.ts
    /\ cpRet.pos # cpRet.pre

\* C10 (as stated): once all calls have returned, memory and catalog hold the
\* same position and it carries the maximum timestamp among the calls.
C10_Original ==
    \A c \in Channels :
        (AllReturned /\ ~cpHist[c].dropped /\ cpHist[c].asked >= 0) =>
            /\ channelCPs[c] = catalogCPs[c]
            /\ channelCPs[c].ok
            /\ channelCPs[c].ts = cpHist[c].asked

\* C10 (amended): the save and install steps of concurrent
\* UpdateChannelCheckpoint calls on one channel do not interleave, so whenever
\* no call is inside its critical section the in-memory checkpoint and the
\* persisted one are the same position, and it carries the maximum timestamp
\* among the calls that returned success (a call whose catalog save fails
\* returns an error and installs nothing); a call waiting for the lock of a
\* channel that nobody holds can proceed whatever happens on other channels.
C10_SerializedPerChannel ==
    /\ \A c \in Channels : NoCallInside(c) => channelCPs[c] = catalogCPs[c]
    /\ \A c \in Channels :
         (NoCallInside(c) /\ ~cpHist[c].dropped /\ cpHist[c].okTs >= 0) =>
             channelCPs[c].ok /\ channelCPs[c].ts = cpHist[c].okTs
    /\ \A p \in Procs :
         (cpPc[p] = "updLock" /\ cpLock[cpCall[p].ch] = 0) =>
             ENABLED UpdateChannelCheckpointLock(p)

\* one call is about to install on a channel while another waits for the same
\* channel, and before that a call on the channel has already returned
C10_Witness ==
    \E p, q \in Procs :
        /\ p # q
        /\ cpPc[p] = "updInstall"
        /\ cpPc[q] = "updLock"
        /\ cpCall[p].ch = cpCall[q].ch
        /\ cpCall[q].pos.ts > cpCall[p].pos.ts


\* ---------------------------------------------------------------------------
\* Segment records
\* ---------------------------------------------------------------------------
SegIDs == {1, 2, 3}
Collections == {100, 200}
States == {"SegmentStateNone", "NotExist", "Growing", "Sealed", "Flushed", "Flushing", "Dropped"}
Levels == {"Legacy", "L0", "L1"}

\* datapb.Binlog and datapb.FieldBinlog
Binlog(id, n) == [logID |-> id, entriesNum |-> n]
FieldBinlog(f, logs) == [fieldID |-> f, binlogs |-> logs]

\* the fields of datapb.SegmentInfo, which the catalog persists
PBFields == {"collectionID", "partitionID", "insertChannel", "state", "level", "numOfRows",
             "maxRowNum", "binlogs", "statslogs", "deltalogs", "startPosition",
             "dmlPosition", "droppedAt", "isImporting", "compacted", "compactionFrom",
             "createdByCompaction", "lastExpireTime", "storageVersion"}

\* a datapb.SegmentInfo with every field at its zero value
ZeroPB ==
    [collectionID |-> 0, partitionID |-> 0, insertChannel |-> "", state |-> "SegmentStateNone",
     level |-> "Legacy", numOfRows |-> 0, maxRowNum |-> 0, binlogs |-> <<>>,
     statslogs |-> <<>>, deltalogs |-> <<>>, startPosition |-> NilPos,
     dmlPosition |-> NilPos, droppedAt |-> 0, isImporting |-> FALSE, compacted |-> FALSE,
     compactionFrom |-> <<>>, createdByCompaction |-> FALSE, lastExpireTime |-> 0,
     storageVersion |-> 0]

\* the persisted part of an in-memory record
PB(seg) == [f \in PBFields |-> seg[f]]

\* NewSegmentInfo: the in-memory record of a datapb.SegmentInfo
NewSegmentInfo(pb) ==
    [f \in PBFields \cup {"currRows", "isCompacting"} |->
        IF f = "currRows" THEN pb.numOfRows
        ELSE IF f = "isCompacting" THEN FALSE
        ELSE pb[f]]

\* SegmentsInfo.SetSegment / DropSegment / SetState / SetIsImporting
SetSegment(segs, id, seg) ==
    [i \in DOMAIN segs \cup {id} |-> IF i = id THEN seg ELSE segs[i]]
DropSegmentFromMap(segs, id) == [i \in DOMAIN segs \ {id} |-> segs[i]]
SetSegmentState(segs, id, st) ==
    IF id \in DOMAIN segs THEN [segs EXCEPT ![id].state = st] ELSE segs
SetIsImporting(segs, id, b) ==
    IF id \in DOMAIN segs THEN [segs EXCEPT ![id].isImporting = b] ELSE segs

\* install every record of a modification set
RECURSIVE SetSegments(_, _)
SetSegments(segs, mods) ==
    IF DOMAIN mods = {} THEN segs
    ELSE LET id == CHOOSE i \in DOMAIN mods : TRUE IN
         SetSegments(SetSegment(segs, id, mods[id]),
                     [i \in DOMAIN mods \ {id} |-> mods[i]])

EmptyMap == [i \in {} |-> 0]

\* Catalog.AlterSegments / AddSegment / SaveDroppedSegmentsInBatch: a multi-key
\* atomic write of the persisted part of the records
CatalogSave(cat, mods) ==
    [i \in DOMAIN cat \cup DOMAIN mods |-> IF i \in DOMAIN mods THEN PB(mods[i]) ELSE cat[i]]
\* Catalog.DropSegment
CatalogDrop(cat, id) == [i \in DOMAIN cat \ {id} |-> cat[i]]

\* reloadFromKV: the segment map rebuilt from the catalog
ReloadSegments(cat) == [i \in DOMAIN cat |-> NewSegmentInfo(cat[i])]

isSegmentHealthyAlways(seg) == TRUE
isSegmentHealthy(seg) ==
    /\ seg.state # "SegmentStateNone"
    /\ seg.state # "NotExist"
    /\ seg.state # "Dropped"

isFlushState(state) == state = "Flushing" \/ state = "Flushed"

\* ---------------------------------------------------------------------------
\* segMetricMutation
\* ---------------------------------------------------------------------------
MetricKeys == Levels \X States
EmptyMutation ==
    [stateChange |-> [k \in MetricKeys |-> 0], rowCountChange |-> 0, rowCountAccChange |-> 0]

\* a new segment that leaves the state counters alone
addNewSegUncounted(mm, state, level, rowCount) ==
    [stateChange |-> mm.stateChange,
     rowCountChange |-> mm.rowCountChange + rowCount,
     rowCountAccChange |-> mm.rowCountAccChange + rowCount]
addNewSeg(mm, state, level, rowCount) ==
    [stateChange |-> [mm.stateChange EXCEPT ![<<level, state>>] = @ + 1],
     rowCountChange |-> mm.rowCountChange + rowCount,
     rowCountAccChange |-> mm.rowCountAccChange + rowCount]

\* an append that takes the rows of a drop from the accumulated delta as well
appendDropFromBoth(mm, oldState, newState, level, rowCountUpdate) ==
    LET sc == IF oldState # newState
              THEN [mm.stateChange EXCEPT ![<<level, oldState>>] = @ - 1,
                                          ![<<level, newState>>] = @ + 1]
              ELSE mm.stateChange
    IN  IF isFlushState(newState) /\ ~isFlushState(oldState)
        THEN [stateChange |-> sc,
              rowCountChange |-> mm.rowCountChange + rowCountUpdate,
              rowCountAccChange |-> mm.rowCountAccChange + rowCountUpdate]
        ELSE IF newState = "Dropped" /\ oldState # newState
        THEN [stateChange |-> sc,
              rowCountChange |-> mm.rowCountChange - rowCountUpdate,
              rowCountAccChange |-> mm.rowCountAccChange - rowCountUpdate]
        ELSE [stateChange |-> sc,
              rowCountChange |-> mm.rowCountChange,
              rowCountAccChange |-> mm.rowCountAccChange]
append(mm, oldState, newState, level, rowCountUpdate) ==
    LET sc == IF oldState # newState
              THEN [mm.stateChange EXCEPT ![<<level, oldState>>] = @ - 1,
                                          ![<<level, newState>>] = @ + 1]
              ELSE mm.stateChange
    IN  IF isFlushState(newState) /\ ~isFlushState(oldState)
        THEN [stateChange |-> sc,
              rowCountChange |-> mm.rowCountChange + rowCountUpdate,
              rowCountAccChange |-> mm.rowCountAccChange + rowCountUpdate]
        ELSE IF newState = "Dropped" /\ oldState # newState
        THEN [stateChange |-> sc,
              rowCountChange |-> mm.rowCountChange - rowCountUpdate,
              rowCountAccChange |-> mm.rowCountAccChange]
        ELSE [stateChange |-> sc,
              rowCountChange |-> mm.rowCountChange,
              rowCountAccChange |-> mm.rowCountAccChange]

\* commit: the gauge and the counter after the buffered deltas are applied
commitNumSegments(gauge, mm) == [k \in MetricKeys |-> gauge[k] + mm.stateChange[k]]
commitStoredRows(counter, mm) == counter + mm.rowCountAccChange

\* updateSegStateAndPrepareMetrics: the record and the buffer afterwards
updateSegStateKeepState(seg, targetState, mm) ==
    [seg |-> seg, mm |-> append(mm, seg.state, targetState, seg.level, seg.numOfRows)]
updateSegStateAndPrepareMetrics(seg, targetState, mm) ==
    [seg |-> [seg EXCEPT !.state = targetState],
     mm |-> append(mm, seg.state, targetState, seg.level, seg.numOfRows)]

\* ---------------------------------------------------------------------------
\* Field binlogs
\* ---------------------------------------------------------------------------
\* getFieldBinlogs: index of the first entry with the field id, 0 if none
getFieldBinlogs(id, binlogs) ==
    IF \E i \in 1..Len(binlogs) : binlogs[i].fieldID = id
    THEN CHOOSE i \in 1..Len(binlogs) :
            /\ binlogs[i].fieldID = id
            /\ \A j \in 1..(i - 1) : binlogs[j].fieldID # id
    ELSE 0

\* a merge that puts the new logs of a field in front of the previous ones
RECURSIVE mergeFieldBinlogsInFront(_, _)
mergeFieldBinlogsInFront(currentBinlogs, newBinlogs) ==
    IF newBinlogs = <<>> THEN currentBinlogs
    ELSE LET nb == Head(newBinlogs)
             i == getFieldBinlogs(nb.fieldID, currentBinlogs)
             cur == IF i = 0
                    THEN Append(currentBinlogs, nb)
                    ELSE [currentBinlogs EXCEPT ![i].binlogs = nb.binlogs \o @]
         IN  mergeFieldBinlogsInFront(cur, Tail(newBinlogs))
\* mergeFieldBinlogs: the logs of a new entry go to the end of the first
\* entry of its field, or the entry is appended if the field has none
RECURSIVE mergeFieldBinlogs(_, _)
mergeFieldBinlogs(currentBinlogs, newBinlogs) ==
    IF newBinlogs = <<>> THEN currentBinlogs
    ELSE LET nb == Head(newBinlogs)
             i == getFieldBinlogs(nb.fieldID, currentBinlogs)
             cur == IF i = 0
                    THEN Append(currentBinlogs, nb)
                    ELSE [currentBinlogs EXCEPT ![i].binlogs = @ \o nb.binlogs]
         IN  mergeFieldBinlogs(cur, Tail(newBinlogs))

\* segmentutil.CalcRowCountFromBinLog: rows counted from the binlog entries of
\* the first field
RECURSIVE SumEntries(_)
SumEntries(logs) ==
    IF logs = <<>> THEN 0 ELSE Head(logs).entriesNum + SumEntries(Tail(logs))
CalcRowCountFromBinLog(seg) ==
    IF Len(seg.binlogs) > 0 THEN SumEntries(seg.binlogs[1].binlogs) ELSE 0

\* log ids of a list of field binlogs, as a set
LogIDsOf(fieldBinlogs) ==
    UNION {{fieldBinlogs[i].binlogs[j].logID : j \in 1..Len(fieldBinlogs[i].binlogs)} :
              i \in 1..Len(fieldBinlogs)}

\* ---------------------------------------------------------------------------
\* The operator pipeline of UpdateSegmentsInfo
\* ---------------------------------------------------------------------------
\* updateSegmentPack: the cloned records, the ids with a binlog increment and
\* the metric buffer of one call
NewPack == [segments |-> EmptyMap, increments |-> {}, metricMutation |-> EmptyMutation]

\* updateSegmentPack.Get: the pack's record of the segment, cloned from the
\* segment map on first use; nothing for a missing or unhealthy segment
PackHas(pack, segs, id) ==
    \/ id \in DOMAIN pack.segments
    \/ (id \in DOMAIN segs /\ isSegmentHealthy(segs[id]))
PackGetNoCache(pack, segs, id) ==
    IF id \in DOMAIN segs THEN segs[id] ELSE pack.segments[id]
PackGet(pack, segs, id) ==
    IF id \in DOMAIN pack.segments THEN pack.segments[id] ELSE segs[id]
PackPut(pack, id, seg) ==
    [pack EXCEPT !.segments = SetSegment(pack.segments, id, seg)]

\* operator descriptors
CreateL0Operator(coll, part, id, ch) ==
    [kind |-> "CreateL0", id |-> id, collectionID |-> coll, partitionID |-> part,
     channel |-> ch]
UpdateStorageVersionOperator(id, v) ==
    [kind |-> "UpdateStorageVersion", id |-> id, version |-> v]
UpdateStatusOperator(id, status) ==
    [kind |-> "UpdateStatus", id |-> id, status |-> status]
UpdateCompactedOperator(id) == [kind |-> "UpdateCompacted", id |-> id]
UpdateBinlogsOperator(id, binlogs, statslogs, deltalogs) ==
    [kind |-> "UpdateBinlogs", id |-> id, binlogs |-> binlogs, statslogs |-> statslogs,
     deltalogs |-> deltalogs]
\* startPositions: sequence of [segmentID, startPosition]
UpdateStartPosition(startPositions) ==
    [kind |-> "UpdateStartPosition", positions |-> startPositions]
\* checkpoints: sequence of [segmentID, numOfRows, position]
UpdateCheckPointOperator(id, importing, checkpoints) ==
    [kind |-> "UpdateCheckPoint", id |-> id, importing |-> importing,
     checkpoints |-> checkpoints]

\* the loop of UpdateStartPosition over its positions
RECURSIVE ApplyStartPositions(_, _, _)
ApplyStartPositions(pack, segs, positions) ==
    IF positions = <<>> THEN pack
    ELSE LET sp == Head(positions)
             next ==
                 IF ~sp.startPosition.ok \/ sp.startPosition.msg = 0 THEN pack
                 ELSE IF ~PackHas(pack, segs, sp.segmentID) THEN pack
                 ELSE PackPut(pack, sp.segmentID,
                        [PackGet(pack, segs, sp.segmentID)
                            EXCEPT !.startPosition = sp.startPosition])
         IN  ApplyStartPositions(next, segs, Tail(positions))

\* a loop that takes every checkpoint of the segment, stale or not
RECURSIVE ApplyCheckPointsStale(_, _, _)
ApplyCheckPointsStale(seg, segmentID, checkpoints) ==
    IF checkpoints = <<>> THEN seg
    ELSE LET cp == Head(checkpoints)
             next ==
                 IF cp.segmentID # segmentID THEN seg
                 ELSE [seg EXCEPT !.numOfRows = cp.numOfRows, !.dmlPosition = cp.position]
         IN  ApplyCheckPointsStale(next, segmentID, Tail(checkpoints))
\* the loop of UpdateCheckPointOperator over its checkpoints
RECURSIVE ApplyCheckPoints(_, _, _)
ApplyCheckPoints(seg, segmentID, checkpoints) ==
    IF checkpoints = <<>> THEN seg
    ELSE LET cp == Head(checkpoints)
             next ==
                 IF cp.segmentID # segmentID THEN seg
                 ELSE IF seg.dmlPosition.ok /\ seg.dmlPosition.ts >= cp.position.ts THEN seg
                 ELSE [seg EXCEPT !.numOfRows = cp.numOfRows, !.dmlPosition = cp.position]
         IN  ApplyCheckPoints(next, segmentID, Tail(checkpoints))

\* one operator applied to the pack: whether it lets the call proceed, and the
\* pack afterwards.  now is the wall clock of the call.
ApplyOperator(pack, segs, op, now) ==
    CASE op.kind = "CreateL0" ->
           IF op.id \notin DOMAIN segs
           THEN [ok |-> TRUE,
                 pack |-> [PackPut(pack, op.id,
                             [ZeroPB EXCEPT !.collectionID = op.collectionID,
                                            !.partitionID = op.partitionID,
                                            !.insertChannel = op.channel,
                                            !.numOfRows = 0,
                                            !.state = "Flushed",
                                            !.level = "L0"]
                             @@ [currRows |-> 0, isCompacting |-> FALSE])
                           EXCEPT !.metricMutation = addNewSeg(@, "Flushed", "L0", 0)]]
           ELSE [ok |-> TRUE, pack |-> pack]
      [] op.kind = "UpdateStartPosition" ->
           [ok |-> TRUE, pack |-> ApplyStartPositions(pack, segs, op.positions)]
      [] OTHER ->
           IF ~PackHas(pack, segs, op.id) THEN [ok |-> FALSE, pack |-> pack]
           ELSE LET seg == PackGet(pack, segs, op.id) IN
             CASE op.kind = "UpdateStorageVersion" ->
                    [ok |-> TRUE,
                     pack |-> PackPut(pack, op.id, [seg EXCEPT !.storageVersion = op.version])]
               [] op.kind = "UpdateStatus" ->
                    LET u == updateSegStateAndPrepareMetrics(seg, op.status, pack.metricMutation)
                        stamped == IF op.status = "Dropped"
                                   THEN [u.seg EXCEPT !.droppedAt = now] ELSE u.seg
                    IN  [ok |-> TRUE,
                         pack |-> [PackPut(pack, op.id, stamped)
                                     EXCEPT !.metricMutation = u.mm]]
               [] op.kind = "UpdateCompacted" ->
                    [ok |-> TRUE,
                     pack |-> PackPut(pack, op.id, [seg EXCEPT !.compacted = TRUE])]
               [] op.kind = "UpdateBinlogs" ->
                    [ok |-> TRUE,
                     pack |-> [PackPut(pack, op.id,
                                 [seg EXCEPT
                                    !.binlogs = mergeFieldBinlogs(@, op.binlogs),
                                    !.statslogs = mergeFieldBinlogs(@, op.statslogs),
                                    !.deltalogs = mergeFieldBinlogs(@, op.deltalogs)])
                               EXCEPT !.increments = @ \cup {op.id}]]
               [] op.kind = "UpdateCheckPoint" ->
                    LET moved == IF op.importing
                                 THEN [seg EXCEPT !.numOfRows = seg.currRows]
                                 ELSE ApplyCheckPoints(seg, op.id, op.checkpoints)
                        count == CalcRowCountFromBinLog(moved)
                        healed == IF count # moved.currRows /\ count > 0
                                  THEN [moved EXCEPT !.numOfRows = count] ELSE moved
                    IN  [ok |-> TRUE, pack |-> PackPut(pack, op.id, healed)]

\* the loop of UpdateSegmentsInfo over its operators: stops at the first
\* operator that returns false
RECURSIVE RunOperators(_, _, _, _)
RunOperators(pack, segs, operators, now) ==
    IF operators = <<>> THEN [ok |-> TRUE, pack |-> pack]
    ELSE LET r == ApplyOperator(pack, segs, Head(operators), now) IN
         IF ~r.ok THEN [ok |-> FALSE, pack |-> r.pack]
         ELSE RunOperators(r.pack, segs, Tail(operators), now)

\* ---------------------------------------------------------------------------
\* The compaction completer
\* ---------------------------------------------------------------------------
\* metautil.BuildDeltaLogPath: the blob key of a delta log of a segment
BuildDeltaLogPath(coll, part, seg, logID) == <<coll, part, seg, logID>>

\* external calls, as recorded in the order they are made
ReadCall(key) == [call |-> "Read", key |-> key]
WriteCall(key) == [call |-> "Write", key |-> key]
AlterCall == [call |-> "AlterSegments", key |-> <<>>]

\* all binlogs of a list of field binlogs, in order
RECURSIVE FlattenLogs(_)
FlattenLogs(fieldBinlogs) ==
    IF fieldBinlogs = <<>> THEN <<>>
    ELSE Head(fieldBinlogs).binlogs \o FlattenLogs(Tail(fieldBinlogs))

\* the delta logs whose id the plan does not list
FilterLateKeepAll(logs, logIDsInPlan) == logs
RECURSIVE FilterLate(_, _)
FilterLate(logs, logIDsInPlan) ==
    IF logs = <<>> THEN <<>>
    ELSE IF Head(logs).logID \in logIDsInPlan
         THEN FilterLate(Tail(logs), logIDsInPlan)
         ELSE <<Head(logs)>> \o FilterLate(Tail(logs), logIDsInPlan)

\* copyNewDeltalogs: for the sources in order, for every delta log whose id is
\* not in the plan, Read the source key then Write the target key; the calls
\* it makes when none fails, and the binlogs it returns
RECURSIVE copyNewDeltalogs(_, _, _)
copyNewDeltalogs(latestCompactFromInfos, logIDsInPlan, toSegment) ==
    IF latestCompactFromInfos = <<>> THEN [io |-> <<>>, newBinlogs |-> <<>>]
    ELSE LET seg == Head(latestCompactFromInfos)
             late == FilterLate(FlattenLogs(seg.info.deltalogs), logIDsInPlan)
             calls == [i \in 1..(2 * Len(late)) |->
                         IF i % 2 = 1
                         THEN ReadCall(BuildDeltaLogPath(seg.info.collectionID,
                                  seg.info.partitionID, seg.id, late[(i + 1) \div 2].logID))
                         ELSE WriteCall(BuildDeltaLogPath(seg.info.collectionID,
                                  seg.info.partitionID, toSegment, late[i \div 2].logID))]
             rest == copyNewDeltalogs(Tail(latestCompactFromInfos), logIDsInPlan, toSegment)
         IN  [io |-> calls \o rest.io, newBinlogs |-> late \o rest.newBinlogs]

\* getMinPosition
RECURSIVE MinPositionFrom(_, _)
MinPositionFrom(minPos, positions) ==
    IF positions = <<>> THEN minPos
    ELSE LET pos == Head(positions)
             next == IF ~minPos.ok \/ (pos.ok /\ pos.ts < minPos.ts) THEN pos ELSE minPos
         IN  MinPositionFrom(next, Tail(positions))
\* the position of the first source, whatever the others are
getMinPositionOfFirst(positions) == IF positions = <<>> THEN NilPos ELSE positions[1]
getMinPosition(positions) == MinPositionFrom(NilPos, positions)

\* logIDsFromPlan: the delta log ids listed in the plan, of all its segments
logIDsFromPlan(plan) ==
    UNION {LogIDsOf(plan.segmentBinlogs[i].deltalogs) : i \in 1..Len(plan.segmentBinlogs)}

\* the source records as the completer prepares them: cloned, stamped, marked
\* compacted and moved to Dropped, with the metric buffer of these moves
RECURSIVE PrepareSourcesUnstamped(_, _, _, _)
PrepareSourcesUnstamped(segs, ids, now, mm) ==
    IF ids = <<>> THEN [infos |-> <<>>, mm |-> mm]
    ELSE LET id == Head(ids)
             u == updateSegStateAndPrepareMetrics([segs[id] EXCEPT !.compacted = TRUE],
                                                  "Dropped", mm)
             rest == PrepareSourcesUnstamped(segs, Tail(ids), now, u.mm)
         IN  [infos |-> <<[id |-> id, info |-> u.seg]>> \o rest.infos, mm |-> rest.mm]
RECURSIVE PrepareSources(_, _, _, _)
PrepareSources(segs, ids, now, mm) ==
    IF ids = <<>> THEN [infos |-> <<>>, mm |-> mm]
    ELSE LET id == Head(ids)
             cloned == [segs[id] EXCEPT !.droppedAt = now, !.compacted = TRUE]
             u == updateSegStateAndPrepareMetrics(cloned, "Dropped", mm)
             rest == PrepareSources(segs, Tail(ids), now, u.mm)
         IN  [infos |-> <<[id |-> id, info |-> u.seg]>> \o rest.infos, mm |-> rest.mm]

PlanSegmentIDs(plan) == [i \in 1..Len(plan.segmentBinlogs) |-> plan.segmentBinlogs[i].segmentID]

\* the result argument after the completer appended the copied delta logs to it
ResultWithNewDeltalogs(result, newDeltalogs) ==
    IF Len(newDeltalogs) > 0
    THEN [result EXCEPT !.deltalogs = Append(@, FieldBinlog(0, newDeltalogs))]
    ELSE result

\* the record of the compaction target (before the zero-row policy)
CompactToSegmentInfoNoParents(plan, compactToSegment, latestCompactFromSegments) ==
    NewSegmentInfo(
        [ZeroPB EXCEPT
            !.collectionID = latestCompactFromSegments[1].info.collectionID,
            !.partitionID = latestCompactFromSegments[1].info.partitionID,
            !.insertChannel = plan.channel,
            !.numOfRows = compactToSegment.numOfRows,
            !.state = "Flushed",
            !.maxRowNum = latestCompactFromSegments[1].info.maxRowNum,
            !.binlogs = compactToSegment.insertLogs,
            !.statslogs = compactToSegment.field2StatslogPaths,
            !.deltalogs = compactToSegment.deltalogs,
            !.createdByCompaction = TRUE,
            !.lastExpireTime = plan.startTime,
            !.level = "L1"])
CompactToSegmentInfo(plan, compactToSegment, latestCompactFromSegments) ==
    NewSegmentInfo(
        [ZeroPB EXCEPT
            !.collectionID = latestCompactFromSegments[1].info.collectionID,
            !.partitionID = latestCompactFromSegments[1].info.partitionID,
            !.insertChannel = plan.channel,
            !.numOfRows = compactToSegment.numOfRows,
            !.state = "Flushed",
            !.maxRowNum = latestCompactFromSegments[1].info.maxRowNum,
            !.binlogs = compactToSegment.insertLogs,
            !.statslogs = compactToSegment.field2StatslogPaths,
            !.deltalogs = compactToSegment.deltalogs,
            !.createdByCompaction = TRUE,
            !.compactionFrom = [i \in 1..Len(latestCompactFromSegments) |->
                                   latestCompactFromSegments[i].id],
            !.lastExpireTime = plan.startTime,
            !.level = "L1",
            !.startPosition = getMinPosition(
                [i \in 1..Len(latestCompactFromSegments) |->
                    latestCompactFromSegments[i].info.startPosition]),
            !.dmlPosition = getMinPosition(
                [i \in 1..Len(latestCompactFromSegments) |->
                    latestCompactFromSegments[i].info.dmlPosition])])

\* everything CompleteCompactionMutation prepares before its external calls,
\* for a plan whose sources are all in the segment map
PrepareCompactionCountsTarget(segs, plan, result, now) ==
    LET src == PrepareSources(segs, PlanSegmentIDs(plan), now, EmptyMutation)
        copied == copyNewDeltalogs(src.infos, logIDsFromPlan(plan), result.segmentID)
        res == ResultWithNewDeltalogs(result, copied.newBinlogs)
        info == CompactToSegmentInfo(plan, res, src.infos)
    IN  [sources |-> src.infos,
         copyIO |-> copied.io,
         result |-> res,
         target |-> IF info.numOfRows > 0 THEN info ELSE [info EXCEPT !.state = "Dropped"],
         mm |-> addNewSeg(src.mm, info.state, info.level, info.numOfRows)]
PrepareCompaction(segs, plan, result, now) ==
    LET src == PrepareSources(segs, PlanSegmentIDs(plan), now, EmptyMutation)
        copied == copyNewDeltalogs(src.infos, logIDsFromPlan(plan), result.segmentID)
        res == ResultWithNewDeltalogs(result, copied.newBinlogs)
        info == CompactToSegmentInfo(plan, res, src.infos)
        positive == info.numOfRows > 0
    IN  [sources |-> src.infos,
         copyIO |-> copied.io,
         result |-> res,
         target |-> IF positive THEN info ELSE [info EXCEPT !.state = "Dropped"],
         mm |-> IF positive
                THEN addNewSeg(src.mm, info.state, info.level, info.numOfRows)
                ELSE src.mm]

\* the records the completer writes and installs: the sources and the target
CompactionMods(prep) ==
    SetSegment([i \in {prep.sources[k].id : k \in 1..Len(prep.sources)} |->
                   (CHOOSE x \in {prep.sources[k] : k \in 1..Len(prep.sources)} :
                       x.id = i).info],
               prep.result.segmentID, prep.target)

\* ---------------------------------------------------------------------------
\* Meta operations.  Every operation holds the write lock of meta from its
\* first to its last statement, so each is one step.
\* ---------------------------------------------------------------------------
CatalogCall(name) == [call |-> name, key |-> <<>>]

\* time.Now().UnixNano()
Now == nOps + 1

\* what an operation leaves alone unless it says otherwise
Finish(rec) ==
    /\ nOps < MaxOps
    /\ nOps' = nOps + 1
    /\ last' = rec
    /\ UNCHANGED <<cpVars, lsVars, trigVars, rwVars>>

\* AddSegment
AddSegmentInsertFirst(id, segment, fail) ==
    LET rec(err) == [op |-> "AddSegment", id |-> id, segment |-> segment, err |-> err,
                     io |-> <<CatalogCall("AddSegment")>>]
    IN
    /\ segments' = SetSegment(segments, id, segment)
    /\ numSegments' = [numSegments EXCEPT ![<<segment.level, segment.state>>] = @ + 1]
    /\ catalog' = IF fail THEN catalog
                  ELSE CatalogSave(catalog, SetSegment(EmptyMap, id, segment))
    /\ Finish(rec(fail))
    /\ UNCHANGED <<chanDeleted, blobs, storedRows>>
AddSegment(id, segment, fail) ==
    LET rec(err) == [op |-> "AddSegment", id |-> id, segment |-> segment, err |-> err,
                     io |-> <<CatalogCall("AddSegment")>>]
    IN
    /\ IF fail
       THEN /\ Finish(rec(TRUE))
            /\ UNCHANGED <<segments, catalog, numSegments>>
       ELSE /\ catalog' = CatalogSave(catalog, SetSegment(EmptyMap, id, segment))
            /\ segments' = SetSegment(segments, id, segment)
            /\ numSegments' = [numSegments EXCEPT ![<<segment.level, segment.state>>] = @ + 1]
            /\ Finish(rec(FALSE))
    /\ UNCHANGED <<chanDeleted, blobs, storedRows>>

\* DropSegment
DropSegment(id, fail) ==
    /\ IF id \notin DOMAIN segments
       THEN /\ Finish([op |-> "DropSegment", id |-> id, err |-> FALSE, io |-> <<>>])
            /\ UNCHANGED <<segments, catalog, numSegments>>
       ELSE IF fail
       THEN /\ Finish([op |-> "DropSegment", id |-> id, err |-> TRUE,
                       io |-> <<CatalogCall("DropSegment")>>])
            /\ UNCHANGED <<segments, catalog, numSegments>>
       ELSE /\ catalog' = CatalogDrop(catalog, id)
            /\ numSegments' = [numSegments EXCEPT
                                 ![<<segments[id].level, segments[id].state>>] = @ - 1]
            /\ segments' = DropSegmentFromMap(segments, id)
            /\ Finish([op |-> "DropSegment", id |-> id, err |-> FALSE,
                       io |-> <<CatalogCall("DropSegment")>>])
    /\ UNCHANGED <<chanDeleted, blobs, storedRows>>

\* SetState with the metric buffer committed ahead of the catalog write
SetStateCommitFirst(id, targetState, fail) ==
    /\ id \in DOMAIN segments
    /\ isSegmentHealthy(segments[id])
    /\ LET u == updateSegStateAndPrepareMetrics(segments[id], targetState, EmptyMutation) IN
       /\ numSegments' = commitNumSegments(numSegments, u.mm)
       /\ storedRows' = commitStoredRows(storedRows, u.mm)
       /\ catalog' = IF fail THEN catalog ELSE CatalogSave(catalog, SetSegment(EmptyMap, id, u.seg))
       /\ segments' = IF fail THEN segments ELSE SetSegmentState(segments, id, targetState)
       /\ Finish([op |-> "SetState", id |-> id, target |-> targetState, err |-> fail,
                  io |-> <<AlterCall>>])
    /\ UNCHANGED <<chanDeleted, blobs>>

\* SetState
SetState(id, targetState, fail) ==
    LET rec(err, io) == [op |-> "SetState", id |-> id, target |-> targetState,
                         err |-> err, io |-> io]
    IN
    /\ IF id \notin DOMAIN segments
       THEN /\ Finish(rec(targetState # "Dropped", <<>>))
            /\ UNCHANGED <<segments, catalog, numSegments, storedRows>>
       ELSE IF ~isSegmentHealthy(segments[id])
       THEN /\ Finish(rec(FALSE, <<>>))
            /\ UNCHANGED <<segments, catalog, numSegments, storedRows>>
       ELSE LET u == updateSegStateAndPrepareMetrics(segments[id], targetState, EmptyMutation)
            IN  IF fail
                THEN /\ Finish(rec(TRUE, <<AlterCall>>))
                     /\ UNCHANGED <<segments, catalog, numSegments, storedRows>>
                ELSE /\ catalog' = CatalogSave(catalog, SetSegment(EmptyMap, id, u.seg))
                     /\ numSegments' = commitNumSegments(numSegments, u.mm)
                     /\ storedRows' = commitStoredRows(storedRows, u.mm)
                     /\ segments' = SetSegmentState(segments, id, targetState)
                     /\ Finish(rec(FALSE, <<AlterCall>>))
    /\ UNCHANGED <<chanDeleted, blobs>>

\* the transforms UpdateSegment is given; each returns whether it changed the record
SegmentOperatorApply(seg, operator) ==
    CASE operator.kind = "SetMaxRowCount" -> [seg EXCEPT !.maxRowNum = operator.value]
      [] OTHER -> seg
SegmentOperatorUpdated(seg, operator) ==
    CASE operator.kind = "SetMaxRowCount" -> seg.maxRowNum # operator.value
      [] operator.kind = "NoOpTrue" -> TRUE
      [] OTHER -> FALSE

\* updated = updated || operator(cloned): operators after the first that
\* reports a change are not called
RECURSIVE RunSegmentOperatorsAllMust(_, _, _)
RunSegmentOperatorsAllMust(seg, updated, operators) ==
    IF operators = <<>> THEN [seg |-> seg, updated |-> FALSE]
    ELSE LET rest == RunSegmentOperatorsAllMust(SegmentOperatorApply(seg, Head(operators)),
                                                updated, Tail(operators))
         IN  [seg |-> rest.seg,
              updated |-> /\ SegmentOperatorUpdated(seg, Head(operators))
                          /\ (Tail(operators) = <<>> \/ rest.updated)]
RECURSIVE RunSegmentOperators(_, _, _)
RunSegmentOperators(seg, updated, operators) ==
    IF operators = <<>> THEN [seg |-> seg, updated |-> updated]
    ELSE IF updated THEN RunSegmentOperators(seg, TRUE, Tail(operators))
    ELSE RunSegmentOperators(SegmentOperatorApply(seg, Head(operators)),
                             SegmentOperatorUpdated(seg, Head(operators)),
                             Tail(operators))

\* UpdateSegment
UpdateSegment(id, operators, fail) ==
    LET rec(err, io) == [op |-> "UpdateSegment", id |-> id, operators |-> operators,
                         err |-> err, io |-> io]
    IN
    /\ IF id \notin DOMAIN segments
       THEN /\ Finish(rec(TRUE, <<>>))
            /\ UNCHANGED <<segments, catalog>>
       ELSE LET r == RunSegmentOperators(segments[id], FALSE, operators) IN
            IF ~r.updated
            THEN /\ Finish(rec(FALSE, <<>>))
                 /\ UNCHANGED <<segments, catalog>>
            ELSE IF fail
            THEN /\ Finish(rec(TRUE, <<AlterCall>>))
                 /\ UNCHANGED <<segments, catalog>>
            ELSE /\ catalog' = CatalogSave(catalog, SetSegment(EmptyMap, id, r.seg))
                 /\ segments' = SetSegment(segments, id, r.seg)
                 /\ Finish(rec(FALSE, <<AlterCall>>))
    /\ UNCHANGED <<chanDeleted, blobs, numSegments, storedRows>>

\* UnsetIsImporting
UnsetIsImporting(id, fail) ==
    LET rec(err, io) == [op |-> "UnsetIsImporting", id |-> id, err |-> err, io |-> io]
    IN
    /\ IF id \notin DOMAIN segments
       THEN /\ Finish(rec(TRUE, <<>>))
            /\ UNCHANGED <<segments, catalog>>
       ELSE LET clonedSegment == [segments[id] EXCEPT !.isImporting = FALSE] IN
            IF isSegmentHealthy(clonedSegment)
            THEN IF fail
                 THEN /\ Finish(rec(TRUE, <<AlterCall>>))
                      /\ UNCHANGED <<segments, catalog>>
                 ELSE /\ catalog' = CatalogSave(catalog, SetSegment(EmptyMap, id, clonedSegment))
                      /\ segments' = SetIsImporting(segments, id, FALSE)
                      /\ Finish(rec(FALSE, <<AlterCall>>))
            ELSE /\ segments' = SetIsImporting(segments, id, FALSE)
                 /\ Finish(rec(FALSE, <<>>))
                 /\ UNCHANGED catalog
    /\ UNCHANGED <<chanDeleted, blobs, numSegments, storedRows>>

\* SetLastExpire: the clone with the new lastExpireTime replaces the record in
\* memory; nothing is written to the catalog.  (Called with an id that is not
\* in the map it dereferences nil.)
SetLastExpire(id, lastExpire) ==
    /\ id \in DOMAIN segments
    /\ segments' = SetSegment(segments, id, [segments[id] EXCEPT !.lastExpireTime = lastExpire])
    /\ Finish([op |-> "SetLastExpire", id |-> id, err |-> FALSE, io |-> <<>>])
    /\ UNCHANGED <<catalog, chanDeleted, blobs, numSegments, storedRows>>

\* what UpdateSegmentsInfo installs in memory once its catalog write returned
InstallPackEarly(segs, pack, err) == SetSegments(segs, pack.segments)
InstallPack(segs, pack, err) == IF err THEN segs ELSE SetSegments(segs, pack.segments)

\* whether UpdateSegmentsInfo goes on after its operators ran
PackProceedsAlways(r) == TRUE
PackProceeds(r) == r.ok

\* UpdateSegmentsInfo
UpdateSegmentsInfo(operators, fail) ==
    LET r == RunOperators(NewPack, segments, operators, Now)
        rec(err, skipped, io) ==
            [op |-> "UpdateSegmentsInfo", operators |-> operators, err |-> err,
             skipped |-> skipped, io |-> io]
    IN
    /\ IF ~PackProceeds(r)
       THEN /\ Finish(rec(FALSE, TRUE, <<>>))
            /\ UNCHANGED <<segments, catalog, numSegments, storedRows>>
       ELSE /\ catalog' = IF fail THEN catalog ELSE CatalogSave(catalog, r.pack.segments)
            /\ numSegments' = IF fail THEN numSegments
                              ELSE commitNumSegments(numSegments, r.pack.metricMutation)
            /\ storedRows' = IF fail THEN storedRows
                             ELSE commitStoredRows(storedRows, r.pack.metricMutation)
            /\ segments' = InstallPack(segments, r.pack, fail)
            /\ Finish(rec(fail, FALSE, <<AlterCall>>))
    /\ UNCHANGED <<chanDeleted, blobs>>

\* mergeDropSegment: the record of a healthy segment merged with the buffered
\* one and moved to Dropped, with a metric buffer of its own; nothing for a
\* missing or unhealthy segment
mergeDropSegmentNoLogs(segs, seg2Drop) ==
    IF seg2Drop.id \notin DOMAIN segs \/ ~isSegmentHealthy(segs[seg2Drop.id])
    THEN [found |-> FALSE, seg |-> NewSegmentInfo(ZeroPB), mm |-> EmptyMutation]
    ELSE LET u == updateSegStateAndPrepareMetrics(segs[seg2Drop.id], "Dropped", EmptyMutation)
         IN  [found |-> TRUE,
              seg |-> [u.seg EXCEPT !.currRows = seg2Drop.currRows,
                                    !.numOfRows = seg2Drop.currRows],
              mm |-> u.mm]
mergeDropSegment(segs, seg2Drop) ==
    IF seg2Drop.id \notin DOMAIN segs \/ ~isSegmentHealthy(segs[seg2Drop.id])
    THEN [found |-> FALSE, seg |-> NewSegmentInfo(ZeroPB), mm |-> EmptyMutation]
    ELSE LET u == updateSegStateAndPrepareMetrics(segs[seg2Drop.id], "Dropped", EmptyMutation)
             merged == [u.seg EXCEPT
                 !.binlogs = mergeFieldBinlogs(@, seg2Drop.binlogs),
                 !.statslogs = mergeFieldBinlogs(@, seg2Drop.statslogs),
                 !.deltalogs = @ \o seg2Drop.deltalogs,
                 !.startPosition = IF seg2Drop.startPosition.ok
                                   THEN seg2Drop.startPosition ELSE @,
                 !.dmlPosition = IF seg2Drop.dmlPosition.ok
                                 THEN seg2Drop.dmlPosition ELSE @,
                 !.currRows = seg2Drop.currRows,
                 !.numOfRows = seg2Drop.currRows]
         IN  [found |-> TRUE, seg |-> merged, mm |-> u.mm]

\* the first loop of UpdateDropChannelSegmentInfo: every merge replaces the
\* metric buffer by the one mergeDropSegment returns
RECURSIVE MergeDropSegments(_, _, _, _)
MergeDropSegments(segs, segs2Drop, modSegments, mm) ==
    IF segs2Drop = <<>> THEN [mods |-> modSegments, mm |-> mm]
    ELSE LET r == mergeDropSegment(segs, Head(segs2Drop)) IN
         MergeDropSegments(segs, Tail(segs2Drop),
             IF r.found THEN SetSegment(modSegments, Head(segs2Drop).id, r.seg)
             ELSE modSegments,
             r.mm)

\* the second loop: the remaining segments of the channel are cloned and moved
\* to Dropped
RECURSIVE DropRestOfChannel(_, _, _, _)
DropRestOfChannel(segs, ids, modSegments, mm) ==
    IF ids = {} THEN [mods |-> modSegments, mm |-> mm]
    ELSE LET id == CHOOSE i \in ids : TRUE
             u == updateSegStateAndPrepareMetrics(segs[id], "Dropped", mm)
         IN  DropRestOfChannel(segs, ids \ {id}, SetSegment(modSegments, id, u.seg), u.mm)

DropChannelMods(segs, channel, segs2Drop) ==
    LET m1 == MergeDropSegments(segs, segs2Drop, EmptyMap, EmptyMutation)
        rest == {id \in DOMAIN segs :
                    segs[id].insertChannel = channel /\ id \notin DOMAIN m1.mods}
    IN  DropRestOfChannel(segs, rest, m1.mods, m1.mm)

\* UpdateDropChannelSegmentInfo with batchSaveDropSegments: failAt names the
\* catalog call that fails ("save", "mark") or "none"
UpdateDropChannelSegmentInfo(channel, segs2Drop, failAt) ==
    LET m == DropChannelMods(segments, channel, segs2Drop)
        rec(err, io) == [op |-> "UpdateDropChannelSegmentInfo", channel |-> channel,
                         segs2Drop |-> segs2Drop, err |-> err, io |-> io]
        save == CatalogCall("SaveDroppedSegmentsInBatch")
        mark == CatalogCall("MarkChannelDeleted")
    IN
    /\ CASE failAt = "save" ->
              /\ Finish(rec(TRUE, <<save>>))
              /\ UNCHANGED <<segments, catalog, chanDeleted, numSegments, storedRows>>
         [] failAt = "mark" ->
              /\ catalog' = CatalogSave(catalog, m.mods)
              /\ Finish(rec(TRUE, <<save, mark>>))
              /\ UNCHANGED <<segments, chanDeleted, numSegments, storedRows>>
         [] OTHER ->
              /\ catalog' = CatalogSave(catalog, m.mods)
              /\ chanDeleted' = chanDeleted \cup {channel}
              /\ segments' = SetSegments(segments, m.mods)
              /\ numSegments' = commitNumSegments(numSegments, m.mm)
              /\ storedRows' = commitStoredRows(storedRows, m.mm)
              /\ Finish(rec(FALSE, <<save, mark>>))
    /\ UNCHANGED blobs

\* the keys of the Write calls among some external calls
WrittenKeys(io) == {io[i].key : i \in {j \in 1..Len(io) : io[j].call = "Write"}}

\* the segment map after CompleteCompactionMutation: the prepared records are
\* installed once the catalog write has returned without error
SegmentsAfterCompactionEager(segs, prep, err) == SetSegments(segs, CompactionMods(prep))
SegmentsAfterCompaction(segs, prep, err) ==
    IF err THEN segs ELSE SetSegments(segs, CompactionMods(prep))

\* the external calls of a completion when none fails: the copies, then one
\* catalog write
CompactionCallsAlterFirst(prep) == <<AlterCall>> \o prep.copyIO
CompactionCalls(prep) == prep.copyIO \o <<AlterCall>>

\* CompleteCompactionMutation.  failAt = 0: no external call fails; failAt = k:
\* the k-th external call fails.  The metric buffer is returned to the caller.
CompleteCompactionMutation(plan, result, failAt) ==
    LET ids == PlanSegmentIDs(plan)
        rec(err, res, io, mm, installed) ==
            [op |-> "CompleteCompactionMutation", plan |-> plan, given |-> result,
             result |-> res, err |-> err, io |-> io, mutation |-> mm,
             installed |-> installed]
    IN
    /\ IF \E i \in 1..Len(ids) : ids[i] \notin DOMAIN segments
       THEN /\ failAt = 0
            /\ Finish(rec(TRUE, result, <<>>, EmptyMutation, FALSE))
            /\ UNCHANGED <<segments, catalog, blobs>>
       ELSE LET prep == PrepareCompaction(segments, plan, result, Now)
                calls == CompactionCalls(prep)
                made == IF failAt = 0 THEN calls ELSE SubSeq(calls, 1, failAt)
                err == failAt # 0
                \* a failing Write writes nothing
                done == IF err THEN SubSeq(made, 1, failAt - 1) ELSE made
                \* the result argument is changed once the copies are through
                copied == failAt = 0 \/ failAt > Len(prep.copyIO)
            IN  /\ failAt \in 0..Len(calls)
                /\ blobs' = blobs \cup WrittenKeys(done)
                /\ catalog' = IF err THEN catalog
                              ELSE CatalogSave(catalog, CompactionMods(prep))
                /\ segments' = SegmentsAfterCompaction(segments, prep, err)
                /\ Finish(rec(err, IF copied THEN prep.result ELSE result, made,
                              IF err THEN EmptyMutation ELSE prep.mm, ~err))
    /\ UNCHANGED <<chanDeleted, numSegments, storedRows>>


\* ---------------------------------------------------------------------------
\* Properties of the segment operations
\* ---------------------------------------------------------------------------
\* a step in which the operation named op returns
Returns(op) == nOps' # nOps /\ last'.op = op

\* every segment's persisted record equals its in-memory record
PersistedEqualsMemory(segs, cat) ==
    /\ DOMAIN segs = DOMAIN cat
    /\ \A id \in DOMAIN segs : PB(segs[id]) = cat[id]

\* C1: every mutating meta operation that returns success leaves the persisted
\* record of every segment equal to its in-memory record, and one that returns
\* an error leaves both the persisted and the in-memory records as they were
\* before the call.
C1_Original ==
    [][nOps' # nOps =>
          IF last'.err
          THEN segments' = segments /\ catalog' = catalog
          ELSE PersistedEqualsMemory(segments', catalog')]_vars

\* the delta log ids of the current records of the plan's sources that the
\* plan does not list
LateDeltaIDs(segs, plan, id) ==
    LogIDsOf(segs[id].deltalogs) \ logIDsFromPlan(plan)
PlanSourceSet(plan) == {plan.segmentBinlogs[i].segmentID : i \in 1..Len(plan.segmentBinlogs)}
IndexOfAlter(io) == CHOOSE i \in 1..Len(io) : io[i] = AlterCall

\* C2: when CompleteCompactionMutation installs the target, every late delta
\* log of every source was read from the source's path and then written to the
\* target's path before the one AlterSegments call, which persists the sources
\* as Dropped.
C2_LateDeltasCopiedBeforeAlter ==
    [][(Returns("CompleteCompactionMutation") /\ last'.installed) =>
          LET io == last'.io
              plan == last'.plan
              to == last'.given.segmentID
          IN  /\ Cardinality({i \in 1..Len(io) : io[i] = AlterCall}) = 1
              /\ \A id \in PlanSourceSet(plan) :
                   /\ catalog'[id].state = "Dropped"
                   /\ \A l \in LateDeltaIDs(segments, plan, id) :
                        LET from == BuildDeltaLogPath(segments[id].collectionID,
                                        segments[id].partitionID, id, l)
                            toKey == BuildDeltaLogPath(segments[id].collectionID,
                                        segments[id].partitionID, to, l)
                        IN  /\ toKey \in blobs'
                            /\ \E i, j \in 1..Len(io) :
                                 /\ i < j
                                 /\ j < IndexOfAlter(io)
                                 /\ io[i] = ReadCall(from)
                                 /\ io[j] = WriteCall(toKey)]_vars

\* a completion that installed its target after copying late delta logs of two sources
C2_Witness ==
    /\ last.op = "CompleteCompactionMutation"
    /\ last.installed
    /\ Len(last.plan.segmentBinlogs) = 2
    /\ Len(last.io) = 5

\* C3: after a successful CompleteCompactionMutation the delta log ids of the
\* installed target are those of the result together with exactly the late
\* ones: the ids in the sources' current records that the plan does not list.
C3_TargetDeltaLogs ==
    [][(Returns("CompleteCompactionMutation") /\ ~last'.err) =>
          LET plan == last'.plan
              to == last'.given.segmentID
          IN  /\ to \in DOMAIN segments'
              /\ LogIDsOf(segments'[to].deltalogs) =
                    LogIDsOf(last'.given.deltalogs)
                    \cup UNION {LateDeltaIDs(segments, plan, id) : id \in PlanSourceSet(plan)}]_vars

\* a target installed with a delta log of the result, a late one carried over
\* and a planned one left behind
C3_Witness ==
    /\ last.op = "CompleteCompactionMutation"
    /\ ~last.err
    /\ last.given.deltalogs # <<>>
    /\ logIDsFromPlan(last.plan) # {}
    /\ Cardinality(LogIDsOf(segments[last.given.segmentID].deltalogs)) >= 2

\* C4: CompleteCompactionMutation that fails (a source is missing, a blob read
\* or write fails, or AlterSegments fails) returns an error and leaves the
\* segment map as it was; once AlterSegments has succeeded every source is
\* installed as Dropped and compacted and the target is installed.
C4_CompactionAllOrNothing ==
    [][Returns("CompleteCompactionMutation") =>
          LET plan == last'.plan
              missing == \E id \in PlanSourceSet(plan) : id \notin DOMAIN segments
              io == last'.io
          IN  /\ missing => last'.err /\ io = <<>>
              /\ last'.err => /\ segments' = segments
                              /\ catalog' = catalog
                              /\ ~last'.installed
              /\ ~last'.err =>
                    /\ io # <<>> /\ io[Len(io)] = AlterCall
                    /\ \A id \in PlanSourceSet(plan) :
                         /\ segments'[id].state = "Dropped"
                         /\ segments'[id].compacted
                    /\ last'.given.segmentID \in DOMAIN segments'
                    /\ PersistedEqualsMemory(segments', catalog')]_vars

\* a completion whose catalog write failed after late delta logs were copied
C4_Witness ==
    /\ last.op = "CompleteCompactionMutation"
    /\ last.err
    /\ Len(last.io) >= 3
    /\ last.io[Len(last.io)] = AlterCall
    /\ blobs # {}
    /\ \A i \in 1..Len(last.plan.segmentBinlogs) :
         /\ last.plan.segmentBinlogs[i].segmentID \in DOMAIN segments
         /\ segments[last.plan.segmentBinlogs[i].segmentID].state = "Flushed"

\* C5: when AlterSegments fails during UpdateSegmentsInfo the call returns the
\* error, every in-memory record is as before the call and no metric change is
\* committed.
C5_AlterFailureLeavesMemory ==
    [][(Returns("UpdateSegmentsInfo") /\ last'.err) =>
          /\ last'.io = <<AlterCall>>
          /\ catalog' = catalog
          /\ segments' = segments
          /\ numSegments' = numSegments
          /\ storedRows' = storedRows]_vars

\* a failed call whose operator had a state change and a metric change to make
C5_Witness ==
    /\ last.op = "UpdateSegmentsInfo"
    /\ last.err
    /\ UpdateStatusOperator(1, "Dropped") \in {last.operators[i] : i \in 1..Len(last.operators)}
    /\ 1 \in DOMAIN segments
    /\ segments[1].state = "Flushed"

\* C6: when an operator given to UpdateSegmentsInfo returns false the call
\* returns nil, issues no catalog write, commits no metric change and leaves
\* the in-memory records unchanged, also those an earlier operator of the call
\* had modified.
C6_SkipAbandonsAll ==
    [][(Returns("UpdateSegmentsInfo")
           /\ ~RunOperators(NewPack, segments, last'.operators, Now).ok) =>
          /\ ~last'.err
          /\ last'.io = <<>>
          /\ catalog' = catalog
          /\ segments' = segments
          /\ numSegments' = numSegments
          /\ storedRows' = storedRows]_vars

\* an abandoned call whose first operator, alone, would have changed a record
C6_Witness ==
    /\ last.op = "UpdateSegmentsInfo"
    /\ last.skipped
    /\ Len(last.operators) = 2
    /\ LET r == RunOperators(NewPack, segments, <<last.operators[1]>>, nOps)
       IN  r.ok /\ SetSegments(segments, r.pack.segments) # segments


\* ---------------------------------------------------------------------------
\* UpdateSegmentsInfo statement by statement, beside a reader.  The writer
\* takes meta's lock exclusively and installs the records of its pack one by
\* one (in the order of a map iteration: any order); a reader takes the lock
\* shared and gets the segment map.
\* ---------------------------------------------------------------------------
NoUSI == [pc |-> "idle", operators |-> <<>>, fail |-> FALSE, pack |-> NewPack,
          todo |-> {}, before |-> EmptyMap, err |-> FALSE, skipped |-> FALSE, io |-> <<>>]

\* sync.RWMutex: Lock waits for the writer and the readers to leave, RLock
\* for the writer only
CanLockBesideReaders(m) == ~m.writer
CanLock(m) == ~m.writer /\ m.readers = 0
CanRLock(m) == ~m.writer

RWFrame == UNCHANGED <<cpVars, lsVars, trigVars, chanDeleted, blobs>>

\* a caller enters UpdateSegmentsInfo
UpdateSegmentsInfoCall(operators, fail) ==
    /\ usi.pc = "idle"
    /\ nOps < MaxOps
    /\ usi' = [NoUSI EXCEPT !.pc = "lock", !.operators = operators, !.fail = fail]
    /\ UNCHANGED <<segments, catalog, numSegments, storedRows, nOps, last, mu, seen, committed>>
    /\ RWFrame

\* m.Lock()
UpdateSegmentsInfoLock ==
    /\ usi.pc = "lock"
    /\ CanLock(mu)
    /\ mu' = [mu EXCEPT !.writer = TRUE]
    /\ usi' = [usi EXCEPT !.pc = "operators", !.before = segments]
    /\ UNCHANGED <<segments, catalog, numSegments, storedRows, nOps, last, seen, committed>>
    /\ RWFrame

\* the loop over the operators
UpdateSegmentsInfoOperators ==
    /\ usi.pc = "operators"
    /\ LET r == RunOperators(NewPack, segments, usi.operators, Now) IN
       usi' = IF PackProceeds(r)
              THEN [usi EXCEPT !.pc = "alter", !.pack = r.pack]
              ELSE [usi EXCEPT !.pc = "unlock", !.skipped = TRUE]
    /\ UNCHANGED <<segments, catalog, numSegments, storedRows, nOps, last, mu, seen, committed>>
    /\ RWFrame

\* catalog.AlterSegments, then metricMutation.commit()
UpdateSegmentsInfoAlter ==
    /\ usi.pc = "alter"
    /\ IF usi.fail
       THEN /\ usi' = [usi EXCEPT !.pc = "unlock", !.err = TRUE, !.io = <<AlterCall>>]
            /\ UNCHANGED <<catalog, numSegments, storedRows>>
       ELSE /\ catalog' = CatalogSave(catalog, usi.pack.segments)
            /\ numSegments' = commitNumSegments(numSegments, usi.pack.metricMutation)
            /\ storedRows' = commitStoredRows(storedRows, usi.pack.metricMutation)
            /\ usi' = [usi EXCEPT !.pc = "install", !.io = <<AlterCall>>,
                                  !.todo = DOMAIN usi.pack.segments]
    /\ UNCHANGED <<segments, nOps, last, mu, seen, committed>>
    /\ RWFrame

\* one round of the loop m.segments.SetSegment(id, s)
UpdateSegmentsInfoInstall ==
    /\ usi.pc = "install"
    /\ IF usi.todo = {}
       THEN /\ usi' = [usi EXCEPT !.pc = "unlock"]
            /\ UNCHANGED segments
       ELSE \E id \in usi.todo :
            /\ segments' = SetSegment(segments, id, usi.pack.segments[id])
            /\ usi' = [usi EXCEPT !.todo = @ \ {id}]
    /\ UNCHANGED <<catalog, numSegments, storedRows, nOps, last, mu, seen, committed>>
    /\ RWFrame

\* the deferred m.Unlock() and the return
UpdateSegmentsInfoUnlock ==
    /\ usi.pc = "unlock"
    /\ mu' = [mu EXCEPT !.writer = FALSE]
    /\ committed' = committed \cup {segments}
    /\ last' = [op |-> "UpdateSegmentsInfo", operators |-> usi.operators, err |-> usi.err,
                skipped |-> usi.skipped, io |-> usi.io]
    /\ nOps' = nOps + 1
    /\ usi' = NoUSI
    /\ UNCHANGED <<segments, catalog, numSegments, storedRows, seen>>
    /\ RWFrame

\* GetAllSegmentsUnsafe: m.RLock()
GetAllSegmentsRLock ==
    /\ mu.readers = 0
    /\ CanRLock(mu)
    /\ mu' = [mu EXCEPT !.readers = 1]
    /\ UNCHANGED <<segments, catalog, numSegments, storedRows, nOps, last, usi, seen, committed>>
    /\ RWFrame

\* GetAllSegmentsUnsafe: the read, and the deferred m.RUnlock()
GetAllSegmentsRead ==
    /\ mu.readers = 1
    /\ seen' = segments
    /\ mu' = [mu EXCEPT !.readers = 0]
    /\ UNCHANGED <<segments, catalog, numSegments, storedRows, nOps, last, usi, committed>>
    /\ RWFrame

\* the segment map after UpdateSegmentsInfo(o1) then UpdateSegmentsInfo(o2),
\* both at the wall clock now, and whether each operator returns true there
SequentialFirst(segs, o1, now) == RunOperators(NewPack, segs, <<o1>>, now)
SequentialSecond(segs, o1, o2, now) ==
    RunOperators(NewPack, SetSegments(segs, SequentialFirst(segs, o1, now).pack.segments),
                 <<o2>>, now)
SequentialResult(segs, o1, o2, now) ==
    SetSegments(SetSegments(segs, SequentialFirst(segs, o1, now).pack.segments),
                SequentialSecond(segs, o1, o2, now).pack.segments)
EachReturnsTrue(segs, o1, o2, now) ==
    /\ RunOperators(NewPack, segs, <<o1, o2>>, now).ok
    /\ SequentialFirst(segs, o1, now).ok
    /\ SequentialSecond(segs, o1, o2, now).ok

\* the ids an operator looks up
OperatorTargets(op) ==
    IF op.kind = "UpdateStartPosition"
    THEN {op.positions[i].segmentID : i \in 1..Len(op.positions)}
    ELSE {op.id}

\* o1 leaves healthy every segment o2 looks up, and the two do not create the
\* same L0 segment
Composable(segs, o1, o2, now) ==
    LET after == SetSegments(segs, SequentialFirst(segs, o1, now).pack.segments) IN
    /\ \A id \in OperatorTargets(o2) \cap DOMAIN segs :
          isSegmentHealthy(segs[id]) => isSegmentHealthy(after[id])
    /\ ~(o1.kind = "CreateL0" /\ o2.kind = "CreateL0" /\ o1.id = o2.id)

\* a call with two operators returns without error
TwoOperatorsDone ==
    /\ usi.pc = "unlock"
    /\ usi'.pc = "idle"
    /\ Len(usi.operators) = 2
    /\ ~usi.err

\* C7 as stated: for operators o1, o2 that each return true, one call
\* UpdateSegmentsInfo(o1, o2) ends in the segment map of the two calls
\* UpdateSegmentsInfo(o1) then UpdateSegmentsInfo(o2), and a reader gets the
\* map of before the call or of after it, never a map in between.
C7_Original ==
    /\ [][(TwoOperatorsDone
            /\ EachReturnsTrue(usi.before, usi.operators[1], usi.operators[2], Now)) =>
          segments = SequentialResult(usi.before, usi.operators[1], usi.operators[2], Now)]_vars
    /\ [](seen \in committed)

\* C7, amended: the same, for operators o1, o2 such that o1 leaves healthy
\* every segment that o2 looks up and that do not both create the same L0
\* segment; the time stamps of the calls taken equal.
C7_ComposableOperators ==
    /\ [][(TwoOperatorsDone
            /\ EachReturnsTrue(usi.before, usi.operators[1], usi.operators[2], Now)
            /\ Composable(usi.before, usi.operators[1], usi.operators[2], Now)) =>
          segments = SequentialResult(usi.before, usi.operators[1], usi.operators[2], Now)]_vars
    /\ [](seen \in committed)

\* a call with two composable operators that changed two records has returned,
\* and the reader got the map while the call was waiting or running
C7_Witness ==
    /\ last.op = "UpdateSegmentsInfo"
    /\ Len(last.operators) = 2
    /\ ~last.err /\ ~last.skipped
    /\ last.operators[1] # last.operators[2]
    /\ \E b \in committed :
         /\ b # segments
         /\ seen = b
         /\ EachReturnsTrue(b, last.operators[1], last.operators[2], nOps)
         /\ Composable(b, last.operators[1], last.operators[2], nOps)
         /\ segments = SequentialResult(b, last.operators[1], last.operators[2], nOps)
         /\ Cardinality({id \in DOMAIN segments : id \notin DOMAIN b \/ segments[id] # b[id]}) = 2

\* ---------------------------------------------------------------------------
\* The readers of the segment map.  Each takes meta's lock shared and computes
\* its answer from the map as it is then (segs).
\* ---------------------------------------------------------------------------
NoSegment == [id |-> 0]
WithID(segs, id) == [id |-> id, info |-> segs[id]]

\* GetSegment: the record, unhealthy ones included; nil when missing
GetSegment(segs, segID) ==
    IF segID \in DOMAIN segs THEN WithID(segs, segID) ELSE NoSegment

\* GetHealthySegment
GetHealthySegment(segs, segID) ==
    IF segID \in DOMAIN segs /\ isSegmentHealthy(segs[segID])
    THEN WithID(segs, segID) ELSE NoSegment

\* the SegmentInfoSelector arguments the callers pass, by name
\* a candidate pool that takes segments under compaction as well
SelectsCompacting(selector, seg) ==
    CASE selector = "healthy" -> isSegmentHealthy(seg)
      [] selector = "flushed" -> seg.state = "Flushed"
      [] selector = "compactable" ->
            /\ isSegmentHealthy(seg)
            /\ seg.state = "Flushed"
            /\ ~seg.isImporting
      [] OTHER -> TRUE
Selects(selector, seg) ==
    CASE selector = "healthy" -> isSegmentHealthy(seg)
      [] selector = "flushed" -> seg.state = "Flushed"
      [] selector = "compactable" ->
            /\ isSegmentHealthy(seg)
            /\ seg.state = "Flushed"
            /\ ~seg.isCompacting
            /\ ~seg.isImporting
      [] OTHER -> TRUE

\* SelectSegments: the records the selector accepts (in the order of a map
\* iteration, hence as a set)
SelectSegments(segs, selector) ==
    {WithID(segs, id) : id \in {i \in DOMAIN segs : Selects(selector, segs[i])}}

\* GetSegmentsChanPart: the accepted records grouped by partition and channel
GetSegmentsChanPart(segs, selector) ==
    LET picked == {i \in DOMAIN segs : Selects(selector, segs[i])}
        dims == {<<segs[i].partitionID, segs[i].insertChannel>> : i \in picked}
    IN  {[partitionID |-> d[1], channelName |-> d[2],
          segments |-> {WithID(segs, i) : i \in {j \in picked :
                           <<segs[j].partitionID, segs[j].insertChannel>> = d}}] : d \in dims}

\* GetCompactionTo: the ids of the segments whose compactionFrom holds
\* segmentID; the call returns the first of them that the map iteration meets
\* (any of them), nil if there is none
GetCompactionTo(segs, segmentID) ==
    {i \in DOMAIN segs :
        \E k \in 1..Len(segs[i].compactionFrom) : segs[i].compactionFrom[k] = segmentID}

\* ---------------------------------------------------------------------------
\* Properties of the metric bookkeeping
\* ---------------------------------------------------------------------------
\* the ids whose record a step installs or replaces
InstalledBy(before, after) ==
    {id \in DOMAIN after : id \notin DOMAIN before \/ after[id] # before[id]}

\* the number of installed segments of every level and state
SegmentCounts(segs) ==
    [k \in MetricKeys |->
        Cardinality({i \in DOMAIN segs : segs[i].level = k[1] /\ segs[i].state = k[2]})]

\* the gauge once the caller has committed the buffer an operation returned
\* (CompleteCompactionMutation hands its buffer to the caller)
GaugeAfterCommit(gauge, rec) ==
    IF rec.op = "CompleteCompactionMutation"
    THEN commitNumSegments(gauge, rec.mutation) ELSE gauge

\* C12: the operations keep the segment-count metric equal to the number of
\* installed segments of every (level, state): an operation that starts with
\* the two equal, successful or failed, ends with them equal once its metric
\* buffer is committed.
C12_Original ==
    [][(nOps' # nOps
          /\ last'.op \in {"AddSegment", "DropSegment", "SetState", "UpdateSegmentsInfo",
                           "UpdateDropChannelSegmentInfo", "CompleteCompactionMutation"}
          /\ numSegments = SegmentCounts(segments)) =>
          GaugeAfterCommit(numSegments', last') = SegmentCounts(segments')]_vars

\* C13: SetState, UpdateSegmentsInfo and UpdateDropChannelSegmentInfo commit
\* their metric buffer only after their catalog write has returned success:
\* a call that returns an error changes no counter, and a call that changes a
\* counter has made its catalog calls, all of which succeeded, and the catalog
\* holds every record it installed.
C13_CommitAfterCatalogWrite ==
    [][(nOps' # nOps
          /\ last'.op \in {"SetState", "UpdateSegmentsInfo", "UpdateDropChannelSegmentInfo"}) =>
          /\ last'.err => numSegments' = numSegments /\ storedRows' = storedRows
          /\ (numSegments' # numSegments \/ storedRows' # storedRows) =>
                /\ ~last'.err
                /\ last'.io # <<>>
                /\ \A id \in InstalledBy(segments, segments') :
                     id \in DOMAIN catalog' /\ catalog'[id] = PB(segments'[id])]_vars

\* UpdateDropChannelSegmentInfo failed at its second catalog call, with a
\* buffer that held the moves of two healthy segments
C13_Witness ==
    /\ last.op = "UpdateDropChannelSegmentInfo"
    /\ last.err
    /\ Len(last.io) = 2
    /\ Cardinality({i \in DOMAIN segments :
                      segments[i].insertChannel = last.channel
                      /\ isSegmentHealthy(segments[i])}) = 2
    /\ numSegments = SegmentCounts(segments)

\* ---------------------------------------------------------------------------
\* Properties of the segment life cycle
\* ---------------------------------------------------------------------------
\* the place of a state in Growing -> Sealed -> Flushing -> Flushed -> Dropped
StateRank(state) ==
    CASE state = "Growing" -> 1
      [] state = "Sealed" -> 2
      [] state = "Flushing" -> 3
      [] state = "Flushed" -> 4
      [] state = "Dropped" -> 5
      [] OTHER -> 0

\* C14: SetState and UpdateSegmentsInfo (UpdateStatusOperator) never move a
\* segment to an earlier state of Growing -> Sealed -> Flushing -> Flushed ->
\* Dropped: a request to do so leaves the state as it was.
C14_Original ==
    [][(nOps' # nOps /\ last'.op \in {"SetState", "UpdateSegmentsInfo"}) =>
          \A id \in DOMAIN segments \cap DOMAIN segments' :
             StateRank(segments'[id].state) >= StateRank(segments[id].state)]_vars

\* the operation changes nothing and calls nothing
NoOpSuccess ==
    /\ ~last'.err
    /\ last'.io = <<>>
    /\ segments' = segments
    /\ catalog' = catalog
    /\ numSegments' = numSegments
    /\ storedRows' = storedRows

\* the call that returns repeats the call that returned before it
Repeats(op) ==
    /\ nOps' # nOps
    /\ last'.op = op /\ last.op = op
    /\ last'.id = last.id
    /\ op = "SetState" => last'.target = "Dropped" /\ last.target = "Dropped"

\* C16: DropSegment(x) and SetState(x, Dropped) are idempotent: invoked again
\* after a successful invocation, each returns success, makes no catalog call
\* and changes neither the segment map nor the metrics; both return success,
\* without a catalog call, when x is not in the map.
C16_DropsAreIdempotent ==
    [][/\ (Repeats("DropSegment") /\ ~last.err) => NoOpSuccess
       /\ (Repeats("SetState") /\ ~last.err) => NoOpSuccess
       /\ (nOps' # nOps /\ last'.op = "DropSegment" /\ last'.id \notin DOMAIN segments)
             => NoOpSuccess
       /\ (nOps' # nOps /\ last'.op = "SetState" /\ last'.target = "Dropped"
             /\ last'.id \notin DOMAIN segments) => NoOpSuccess]_vars

\* the second SetState(x, Dropped) has returned: x was dropped by the first
\* (no channel was dropped, nothing was compacted, no operator stamped it)
C16_Witness ==
    /\ nOps = 2
    /\ last.op = "SetState" /\ last.target = "Dropped"
    /\ ~last.err /\ last.io = <<>>
    /\ last.id \in DOMAIN segments
    /\ segments[last.id].state = "Dropped"
    /\ segments[last.id].droppedAt = 0
    /\ ~segments[last.id].compacted
    /\ chanDeleted = {}
    /\ catalog[last.id].state = "Dropped"

\* C17: SetState(id, target) on a segment that is not in the map fails unless
\* target is Dropped, in which case it succeeds; on a segment in the map that
\* is Dropped, None or NotExist it returns success without a catalog call and
\* without changing anything; on a healthy segment it writes the record with
\* the new state to the catalog and installs the new state only if that write
\* succeeds.
C17_SetStateCases ==
    [][(nOps' # nOps /\ last'.op = "SetState") =>
          LET id == last'.id
              target == last'.target
          IN  IF id \notin DOMAIN segments
              THEN /\ last'.err <=> target # "Dropped"
                   /\ last'.io = <<>>
                   /\ segments' = segments /\ catalog' = catalog
                   /\ numSegments' = numSegments
              ELSE IF segments[id].state \in {"Dropped", "SegmentStateNone", "NotExist"}
              THEN NoOpSuccess
              ELSE /\ last'.io = <<AlterCall>>
                   /\ IF last'.err
                      THEN segments' = segments /\ catalog' = catalog
                      ELSE /\ catalog' = CatalogSave(catalog,
                                  SetSegment(EmptyMap, id, [segments[id] EXCEPT !.state = target]))
                           /\ segments' = [segments EXCEPT ![id].state = target]]_vars

\* a SetState whose catalog write failed on a healthy segment, which keeps
\* its state
C17_Witness ==
    /\ last.op = "SetState"
    /\ last.err
    /\ last.io = <<AlterCall>>
    /\ last.id \in DOMAIN segments
    /\ segments[last.id].state = "Flushed"
    /\ last.target = "Dropped"
    /\ catalog[last.id].state = "Flushed"

\* C18: after any sequence of meta mutations, rebuilding meta from the catalog
\* (reloadFromKV) yields the in-memory segment map, the order of the logs
\* inside every field included.  (The records are compared on the fields the
\* catalog stores.)
C18_Original ==
    [i \in DOMAIN catalog |-> PB(ReloadSegments(catalog)[i])]
        = [i \in DOMAIN segments |-> PB(segments[i])]

\* C19: after a successful CompleteCompactionMutation every source of the plan
\* is installed as Dropped, with compacted = true and a nonzero droppedAt, and
\* with exactly the binlogs, statslogs and deltalogs it had before the call.
C19_SourcesDroppedKeepLogs ==
    [][(Returns("CompleteCompactionMutation") /\ ~last'.err) =>
          \A id \in PlanSourceSet(last'.plan) :
             /\ id \in DOMAIN segments'
             /\ segments'[id].state = "Dropped"
             /\ segments'[id].compacted
             /\ segments'[id].droppedAt # 0
             /\ segments'[id].binlogs = segments[id].binlogs
             /\ segments'[id].statslogs = segments[id].statslogs
             /\ segments'[id].deltalogs = segments[id].deltalogs]_vars

\* a completion of a plan of two sources, one of which had got more logs
\* from a flush after the plan was cut
C19_Witness ==
    /\ last.op = "CompleteCompactionMutation"
    /\ ~last.err
    /\ Len(last.plan.segmentBinlogs) = 2
    /\ \A i \in 1..2 : segments[last.plan.segmentBinlogs[i].segmentID].state = "Dropped"
    /\ last.plan.segmentBinlogs[1].segmentID = 1
    /\ Len(segments[1].statslogs) = 2

\* what the installed target of a completion with a result of more than zero
\* rows looks like
TargetAsPlanned(segs, after, plan, result) ==
    LET to == result.segmentID
        first == segs[plan.segmentBinlogs[1].segmentID]
    IN  /\ to \in DOMAIN after
        /\ after[to].level = "L1"
        /\ after[to].state = "Flushed"
        /\ after[to].insertChannel = plan.channel
        /\ after[to].collectionID = first.collectionID
        /\ after[to].partitionID = first.partitionID
        /\ after[to].maxRowNum = first.maxRowNum
        /\ after[to].compactionFrom = PlanSegmentIDs(plan)
        /\ after[to].createdByCompaction
        /\ after[to].lastExpireTime = plan.startTime

GetTimestamp(pos) == IF pos.ok THEN pos.ts ELSE 0

\* the call is UpdateSegmentsInfo(UpdateCheckPointOperator(id, ..)) and every
\* checkpoint it carries for the segment is stale
StaleCheckPointCall(rec, segs) ==
    /\ rec.op = "UpdateSegmentsInfo"
    /\ Len(rec.operators) = 1
    /\ rec.operators[1].kind = "UpdateCheckPoint"
    /\ rec.operators[1].id \in DOMAIN segs
    /\ \A i \in 1..Len(rec.operators[1].checkpoints) :
         LET cp == rec.operators[1].checkpoints[i] IN
         cp.segmentID = rec.operators[1].id =>
            GetTimestamp(cp.position) <= GetTimestamp(segs[cp.segmentID].dmlPosition)

\* C15: UpdateSegmentsInfo, UpdateDropChannelSegmentInfo, SetState and
\* UpdateSegment never decrease the timestamp of a segment's dmlPosition, and
\* an UpdateCheckPoint whose position is not later than the segment's
\* dmlPosition changes neither numOfRows nor dmlPosition.
C15_Original ==
    [][(nOps' # nOps
          /\ last'.op \in {"UpdateSegmentsInfo", "UpdateDropChannelSegmentInfo", "SetState",
                           "UpdateSegment"}) =>
          /\ \A id \in DOMAIN segments \cap DOMAIN segments' :
               GetTimestamp(segments'[id].dmlPosition) >= GetTimestamp(segments[id].dmlPosition)
          /\ StaleCheckPointCall(last', segments) =>
               LET id == last'.operators[1].id IN
               /\ segments'[id].numOfRows = segments[id].numOfRows
               /\ segments'[id].dmlPosition = segments[id].dmlPosition]_vars

\* ---------------------------------------------------------------------------
\* UpdateDropChannelSegmentInfo and CompleteCompactionMutation statement by
\* statement, beside the stepwise UpdateSegmentsInfo and a reader
\* ---------------------------------------------------------------------------
WriterFrame == UNCHANGED <<cpVars, lsVars, trigVars, numSegments, storedRows, nOps, last, seen, committed>>

\* a caller enters UpdateDropChannelSegmentInfo
UpdateDropChannelSegmentInfoCall(channel, segs2Drop, failAt) ==
    /\ usi.pc = "idle"
    /\ nOps < MaxOps
    /\ usi' = [pc |-> "dropLock", channel |-> channel, segs2Drop |-> segs2Drop,
               failAt |-> failAt] @@ NoUSI
    /\ UNCHANGED <<segments, catalog, chanDeleted, blobs, mu>>
    /\ WriterFrame

\* m.Lock(), then the two loops that prepare the dropped records
UpdateDropChannelSegmentInfoLock ==
    /\ usi.pc = "dropLock"
    /\ CanLock(mu)
    /\ mu' = [mu EXCEPT !.writer = TRUE]
    /\ LET m == DropChannelMods(segments, usi.channel, usi.segs2Drop) IN
       usi' = [usi EXCEPT !.pc = "dropSave", !.before = segments,
                          !.pack = [segments |-> m.mods, increments |-> {},
                                    metricMutation |-> m.mm]]
    /\ UNCHANGED <<segments, catalog, chanDeleted, blobs>>
    /\ WriterFrame

\* batchSaveDropSegments: catalog.SaveDroppedSegmentsInBatch
UpdateDropChannelSegmentInfoSave ==
    /\ usi.pc = "dropSave"
    /\ IF usi.failAt = "save"
       THEN /\ usi' = [usi EXCEPT !.pc = "dropUnlock", !.err = TRUE,
                                  !.io = <<CatalogCall("SaveDroppedSegmentsInBatch")>>]
            /\ UNCHANGED catalog
       ELSE /\ catalog' = CatalogSave(catalog, usi.pack.segments)
            /\ usi' = [usi EXCEPT !.pc = "dropMark",
                                  !.io = <<CatalogCall("SaveDroppedSegmentsInBatch")>>]
    /\ UNCHANGED <<segments, chanDeleted, blobs, mu>>
    /\ WriterFrame

\* batchSaveDropSegments: catalog.MarkChannelDeleted
UpdateDropChannelSegmentInfoMark ==
    /\ usi.pc = "dropMark"
    /\ IF usi.failAt = "mark"
       THEN /\ usi' = [usi EXCEPT !.pc = "dropUnlock", !.err = TRUE,
                                  !.io = Append(@, CatalogCall("MarkChannelDeleted"))]
            /\ UNCHANGED chanDeleted
       ELSE /\ chanDeleted' = chanDeleted \cup {usi.channel}
            /\ usi' = [usi EXCEPT !.pc = "dropInstall",
                                  !.io = Append(@, CatalogCall("MarkChannelDeleted")),
                                  !.todo = DOMAIN usi.pack.segments]
    /\ UNCHANGED <<segments, catalog, blobs, mu>>
    /\ WriterFrame

\* batchSaveDropSegments: one round of the loop m.segments.SetSegment(id, segment)
UpdateDropChannelSegmentInfoInstall ==
    /\ usi.pc = "dropInstall"
    /\ usi.todo # {}
    /\ \E id \in usi.todo :
         /\ segments' = SetSegment(segments, id, usi.pack.segments[id])
         /\ usi' = [usi EXCEPT !.todo = @ \ {id}]
    /\ UNCHANGED <<catalog, chanDeleted, blobs, mu>>
    /\ WriterFrame

\* metricMutation.commit(), the deferred m.Unlock() and the return
UpdateDropChannelSegmentInfoUnlock ==
    /\ \/ usi.pc = "dropUnlock"
       \/ usi.pc = "dropInstall" /\ usi.todo = {}
    /\ mu' = [mu EXCEPT !.writer = FALSE]
    /\ committed' = committed \cup {segments}
    /\ numSegments' = IF usi.err THEN numSegments
                      ELSE commitNumSegments(numSegments, usi.pack.metricMutation)
    /\ storedRows' = IF usi.err THEN storedRows
                     ELSE commitStoredRows(storedRows, usi.pack.metricMutation)
    /\ last' = [op |-> "UpdateDropChannelSegmentInfo", channel |-> usi.channel,
                segs2Drop |-> usi.segs2Drop, err |-> usi.err, io |-> usi.io]
    /\ nOps' = nOps + 1
    /\ usi' = NoUSI
    /\ UNCHANGED <<cpVars, lsVars, trigVars, segments, catalog, chanDeleted, blobs, seen>>

\* a caller enters CompleteCompactionMutation
CompleteCompactionMutationCall(plan, result, failAt) ==
    /\ usi.pc = "idle"
    /\ nOps < MaxOps
    /\ LET ids == PlanSegmentIDs(plan) IN
       IF \E i \in 1..Len(ids) : ids[i] \notin DOMAIN segments
       THEN failAt = 0
       ELSE failAt \in 0..Len(CompactionCalls(PrepareCompaction(segments, plan, result, Now)))
    /\ usi' = [pc |-> "compactLock", plan |-> plan, result |-> result, failAt |-> failAt,
               calls |-> <<>>, order |-> <<>>] @@ NoUSI
    /\ UNCHANGED <<segments, catalog, chanDeleted, blobs, mu>>
    /\ WriterFrame

\* m.Lock(), the check of the sources and the preparation of the records
CompleteCompactionMutationLock ==
    /\ usi.pc = "compactLock"
    /\ CanLock(mu)
    /\ mu' = [mu EXCEPT !.writer = TRUE]
    /\ LET ids == PlanSegmentIDs(usi.plan) IN
       IF \E i \in 1..Len(ids) : ids[i] \notin DOMAIN segments
       THEN usi' = [usi EXCEPT !.pc = "compactUnlock", !.before = segments, !.err = TRUE]
       ELSE LET prep == PrepareCompaction(segments, usi.plan, usi.result, Now) IN
            usi' = [usi EXCEPT !.pc = "compactCopy", !.before = segments,
                           !.calls = CompactionCalls(prep),
                           !.order = ids \o <<usi.result.segmentID>>,
                           !.pack = [segments |-> CompactionMods(prep),
                                     increments |-> {usi.result.segmentID},
                                     metricMutation |-> prep.mm]]
    /\ UNCHANGED <<segments, catalog, chanDeleted, blobs>>
    /\ WriterFrame

\* copyNewDeltalogs: the next Read or Write of a late delta log
CompleteCompactionMutationCopy ==
    /\ usi.pc = "compactCopy"
    /\ LET k == Len(usi.io) + 1
           call == usi.calls[k]
       IN  IF call = AlterCall
           THEN /\ usi' = [usi EXCEPT !.pc = "compactAlter"]
                /\ UNCHANGED blobs
           ELSE IF usi.failAt = k
           THEN /\ usi' = [usi EXCEPT !.pc = "compactUnlock", !.err = TRUE,
                                      !.io = Append(@, call)]
                /\ UNCHANGED blobs
           ELSE /\ usi' = [usi EXCEPT !.io = Append(@, call)]
                /\ blobs' = blobs \cup WrittenKeys(<<call>>)
    /\ UNCHANGED <<segments, catalog, chanDeleted, mu>>
    /\ WriterFrame

\* catalog.AlterSegments of the sources and the target
CompleteCompactionMutationAlter ==
    /\ usi.pc = "compactAlter"
    /\ IF usi.failAt = Len(usi.calls)
       THEN /\ usi' = [usi EXCEPT !.pc = "compactUnlock", !.err = TRUE,
                                  !.io = Append(@, AlterCall)]
            /\ UNCHANGED catalog
       ELSE /\ catalog' = CatalogSave(catalog, usi.pack.segments)
            /\ usi' = [usi EXCEPT !.pc = "compactInstall", !.io = Append(@, AlterCall)]
    /\ UNCHANGED <<segments, chanDeleted, blobs, mu>>
    /\ WriterFrame

\* m.segments.SetSegment of the sources in the plan's order, then of the target
CompleteCompactionMutationInstall ==
    /\ usi.pc = "compactInstall"
    /\ usi.order # <<>>
    /\ segments' = SetSegment(segments, Head(usi.order), usi.pack.segments[Head(usi.order)])
    /\ usi' = [usi EXCEPT !.order = Tail(@)]
    /\ UNCHANGED <<catalog, chanDeleted, blobs, mu>>
    /\ WriterFrame

\* the deferred m.Unlock() and the return
CompleteCompactionMutationUnlock ==
    /\ \/ usi.pc = "compactUnlock"
       \/ usi.pc = "compactInstall" /\ usi.order = <<>>
    /\ mu' = [mu EXCEPT !.writer = FALSE]
    /\ committed' = committed \cup {segments}
    /\ last' = [op |-> "CompleteCompactionMutation", plan |-> usi.plan,
                given |-> usi.result, err |-> usi.err, io |-> usi.io]
    /\ nOps' = nOps + 1
    /\ usi' = NoUSI
    /\ UNCHANGED <<cpVars, lsVars, trigVars, segments, catalog, chanDeleted, blobs, numSegments, storedRows, seen>>

\* every reader answers from the map m as it would from the map c
ReadersAgree(m, c) ==
    /\ \A id \in SegIDs :
         /\ GetSegment(m, id) = GetSegment(c, id)
         /\ GetHealthySegment(m, id) = GetHealthySegment(c, id)
         /\ GetCompactionTo(m, id) = GetCompactionTo(c, id)
    /\ \A selector \in {"healthy", "flushed", "all"} :
         /\ SelectSegments(m, selector) = SelectSegments(c, selector)
         /\ GetSegmentsChanPart(m, selector) = GetSegmentsChanPart(c, selector)

\* C11: a reader interleaved with UpdateSegmentsInfo, UpdateDropChannelSegmentInfo
\* or CompleteCompactionMutation never observes part of the operation's
\* segments installed, nor a record installed that the catalog write of the
\* operation has not persisted: what it gets is the map at a boundary of the
\* writers' calls, and a record is installed only while the writer holds the
\* lock exclusively and once the catalog holds that record.
C11_ReadersSeeWholeOperations ==
    /\ [][segments' # segments =>
            /\ mu.writer /\ mu.readers = 0
            /\ \A id \in InstalledBy(segments, segments') :
                 id \in DOMAIN catalog /\ catalog[id] = PB(segments'[id])]_vars
    /\ [](\E c \in committed : ReadersAgree(seen, c))

\* a reader that waited for a compaction installing three records, and got
\* the map with all three of them
C11_Witness ==
    /\ last.op = "CompleteCompactionMutation"
    /\ ~last.err
    /\ seen = segments
    /\ \E b \in committed : Cardinality(InstalledBy(b, seen)) = 3

\* ---------------------------------------------------------------------------
\* Properties of the zero-row policy, UpdateSegment and AddSegment
\* ---------------------------------------------------------------------------
\* the rows of the segments ids of the map segs
RECURSIVE RowsOf(_, _)
RowsOf(segs, ids) ==
    IF ids = {} THEN 0
    ELSE LET i == CHOOSE x \in ids : TRUE IN segs[i].numOfRows + RowsOf(segs, ids \ {i})

\* the sources of the plan a completion moves to Dropped
MovedSources(segs, plan) == {i \in PlanSourceSet(plan) : segs[i].state # "Dropped"}

\* what moving these sources to Dropped adds to the counter of a level and state
SourceMoves(segs, plan, k) ==
    LET moved == {i \in MovedSources(segs, plan) : segs[i].level = k[1]}
    IN  IF k[2] = "Dropped" THEN Cardinality(moved)
        ELSE 0 - Cardinality({i \in moved : segs[i].state = k[2]})

RECURSIVE AppliedUpTo(_, _, _)
AppliedUpTo(seg, operators, n) ==
    IF n = 0 THEN seg
    ELSE SegmentOperatorApply(AppliedUpTo(seg, operators, n - 1), operators[n])

\* the transforms of the list that report a change when their turn comes
Changing(seg, operators) ==
    {i \in 1..Len(operators) :
        SegmentOperatorUpdated(AppliedUpTo(seg, operators, i - 1), operators[i])}

\* the least number of a set of numbers
Least(S) == CHOOSE i \in S : \A j \in S : i <= j

\* C22 as stated: UpdateSegment of an installed segment returns success
\* without a catalog write and without changing the record as soon as any of
\* its transforms reports no change.
C22_Original ==
    [][/\ Returns("UpdateSegment")
       /\ last'.id \in DOMAIN segments
       /\ Changing(segments[last'.id], last'.operators) # 1..Len(last'.operators)
       => /\ ~last'.err
          /\ last'.io = <<>>
          /\ segments' = segments
          /\ catalog' = catalog]_vars

\* C22: UpdateSegment works on a clone; on a missing segment it returns an
\* error; when no transform reports a change it returns success without a
\* catalog write and without changing the record; otherwise it writes the
\* clone, to which the transforms up to the first that reports a change were
\* applied, and installs it only when the write succeeded: a failed write
\* returns the error and leaves the record as it was.
C22_UpdateSegmentCases ==
    [][Returns("UpdateSegment") =>
          LET id == last'.id
              ops == last'.operators
          IN  IF id \notin DOMAIN segments
              THEN last'.err /\ last'.io = <<>> /\ segments' = segments /\ catalog' = catalog
              ELSE IF Changing(segments[id], ops) = {}
              THEN ~last'.err /\ last'.io = <<>> /\ segments' = segments /\ catalog' = catalog
              ELSE /\ last'.io = <<AlterCall>>
                   /\ last'.err => segments' = segments /\ catalog' = catalog
                   /\ ~last'.err =>
                         /\ segments' = SetSegment(segments, id,
                               AppliedUpTo(segments[id], ops, Least(Changing(segments[id], ops))))
                         /\ catalog' = CatalogSave(catalog,
                               SetSegment(EmptyMap, id, segments'[id]))]_vars

\* an UpdateSegment that wrote the record although its first transform
\* reported no change
C22_Witness ==
    /\ last.op = "UpdateSegment"
    /\ ~last.err
    /\ last.io = <<AlterCall>>
    /\ last.operators[1].kind = "NoOpFalse"
    /\ segments[last.id].maxRowNum = 8

\* C23: AddSegment inserts the record into the segment map and adds one to
\* the counter of its level and state only once Catalog.AddSegment has
\* succeeded; when the catalog call fails it returns the error, the record is
\* not inserted and no counter changes.
C23_AddSegmentAfterCatalog ==
    [][Returns("AddSegment") =>
          LET seg == last'.segment
              key == <<seg.level, seg.state>>
          IN  /\ last'.io = <<CatalogCall("AddSegment")>>
              /\ last'.err =>
                    /\ segments' = segments
                    /\ catalog' = catalog
                    /\ numSegments' = numSegments
              /\ ~last'.err =>
                    /\ segments' = SetSegment(segments, last'.id, seg)
                    /\ catalog'[last'.id] = PB(seg)
                    /\ numSegments'[key] = numSegments[key] + 1
                    /\ \A k \in MetricKeys \ {key} : numSegments'[k] = numSegments[k]
              /\ storedRows' = storedRows]_vars

\* an AddSegment whose catalog call failed, after one that inserted a record
C23_Witness ==
    /\ last.op = "AddSegment"
    /\ last.err
    /\ last.id \notin DOMAIN segments
    /\ segments # EmptyMap
    /\ catalog = [i \in DOMAIN segments |-> PB(segments[i])]
    /\ nOps = 2

\* ---------------------------------------------------------------------------
\* Properties of the channel drop
\* ---------------------------------------------------------------------------
\* the ids of the buffered segments of a call
BufferedIDs(segs2Drop) == {segs2Drop[i].id : i \in 1..Len(segs2Drop)}

\* every segment of the channel is Dropped
ChannelDropped(segs, channel) ==
    \A id \in DOMAIN segs : segs[id].insertChannel = channel => segs[id].state = "Dropped"

\* C24 as stated: after a successful UpdateDropChannelSegmentInfo every
\* segment of the channel is Dropped, every buffered segment has a record that
\* holds its logs (merged into the existing record, or created), and the
\* records of the segments of other channels are as before.
C24_Original ==
    [][Returns("UpdateDropChannelSegmentInfo") /\ ~last'.err =>
          LET bufs == last'.segs2Drop IN
          /\ ChannelDropped(segments', last'.channel)
          /\ \A i \in 1..Len(bufs) :
               /\ bufs[i].id \in DOMAIN segments'
               /\ LogIDsOf(bufs[i].binlogs) \subseteq LogIDsOf(segments'[bufs[i].id].binlogs)
               /\ LogIDsOf(bufs[i].deltalogs) \subseteq LogIDsOf(segments'[bufs[i].id].deltalogs)
          /\ \A id \in DOMAIN segments :
               segments[id].insertChannel # last'.channel => segments'[id] = segments[id]]_vars

\* C24: after a successful UpdateDropChannelSegmentInfo every segment of the
\* channel is Dropped; a buffered segment whose record is installed and
\* healthy has its logs merged into that record, which is Dropped and takes
\* the buffered row count, whatever its channel; a buffered segment without a
\* record gets none and the logs of one with an unhealthy record are left
\* out; every other record not of the channel is as before.
C24_ChannelDropMerges ==
    [][Returns("UpdateDropChannelSegmentInfo") /\ ~last'.err =>
          LET bufs == last'.segs2Drop
              channel == last'.channel
          IN
          /\ ChannelDropped(segments', channel)
          /\ DOMAIN segments' = DOMAIN segments
          /\ \A i \in 1..Len(bufs) :
               LET b == bufs[i] IN
               b.id \in DOMAIN segments =>
                  LET old == segments[b.id]
                      new == segments'[b.id]
                  IN  IF isSegmentHealthy(old)
                      THEN /\ new.state = "Dropped"
                           /\ LogIDsOf(new.binlogs) = LogIDsOf(old.binlogs) \cup LogIDsOf(b.binlogs)
                           /\ LogIDsOf(new.statslogs) =
                                  LogIDsOf(old.statslogs) \cup LogIDsOf(b.statslogs)
                           /\ new.deltalogs = old.deltalogs \o b.deltalogs
                           /\ new.numOfRows = b.currRows
                      ELSE new = IF old.insertChannel = channel
                                 THEN [old EXCEPT !.state = "Dropped"] ELSE old
          /\ \A id \in DOMAIN segments \ BufferedIDs(bufs) :
               segments'[id] = IF segments[id].insertChannel = channel
                               THEN [segments[id] EXCEPT !.state = "Dropped"]
                               ELSE segments[id]]_vars

\* a channel drop that merged the buffered logs into segment 1 and left
\* another buffered segment without a record
C24_Witness ==
    /\ last.op = "UpdateDropChannelSegmentInfo"
    /\ ~last.err
    /\ Len(last.segs2Drop) = 2
    /\ 1 \in DOMAIN segments
    /\ segments[1].state = "Dropped"
    /\ 17 \in LogIDsOf(segments[1].binlogs)
    /\ 18 \in LogIDsOf(segments[1].deltalogs)
    /\ 2 \notin DOMAIN segments

\* C25: UpdateDropChannelSegmentInfo persists the dropped segments and the
\* channel-deletion marker as one batch: either it succeeds, the dropped
\* records and the marker are persisted and the records are installed, or it
\* returns an error and no dropped record is persisted, the marker is not set
\* and the segment map is as before.
C25_Original ==
    [][Returns("UpdateDropChannelSegmentInfo") =>
          LET mods == DropChannelMods(segments, last'.channel, last'.segs2Drop).mods
          IN  IF last'.err
              THEN /\ catalog' = catalog
                   /\ chanDeleted' = chanDeleted
                   /\ segments' = segments
              ELSE /\ \A id \in DOMAIN mods :
                        catalog'[id] = PB(mods[id]) /\ segments'[id] = mods[id]
                   /\ last'.channel \in chanDeleted']_vars

\* ---------------------------------------------------------------------------
\* Properties of the failures of UpdateChannelCheckpoint
\* ---------------------------------------------------------------------------
\* a step in which an UpdateChannelCheckpoint returns an error
UpdateFails == cpRet' # cpRet /\ cpRet'.op = "update" /\ cpRet'.err

\* C26: UpdateChannelCheckpoint returns an error and leaves the persisted and
\* the in-memory checkpoint of the channel as they were when the position is
\* nil or has a nil message id (it is refused before anything is read) and
\* when Catalog.SaveChannelCheckpoint fails: from its lock to its failing
\* save nothing changes either of them; and the in-memory checkpoint is
\* replaced only by a position the catalog already holds.
C26_FailedUpdateChangesNothing ==
    /\ [](\A p \in Procs :
            cpCall[p].op = "update" => cpCall[p].pos.ok /\ cpCall[p].pos.msg # 0)
    /\ [][UpdateFails =>
            /\ channelCPs' = channelCPs
            /\ catalogCPs' = catalogCPs
            /\ cpRet'.post = cpRet'.pre
            /\ cpRet'.post = channelCPs'[cpRet'.ch]
            /\ (~cpRet'.pos.ok \/ cpRet'.pos.msg = 0) <=> cpRet'.saves = 0]_vars
    /\ [][\A p \in Procs :
            cpPc[p] \in {"updCheck", "updSave"} /\ cpPc'[p] # "updInstall" =>
                /\ channelCPs'[cpCall[p].ch] = channelCPs[cpCall[p].ch]
                /\ catalogCPs'[cpCall[p].ch] = catalogCPs[cpCall[p].ch]]_vars
    /\ [][\A ch \in Channels :
            channelCPs'[ch] # channelCPs[ch] /\ channelCPs'[ch].ok =>
                catalogCPs[ch] = channelCPs'[ch]]_vars

\* a failed save of a position newer than the installed checkpoint, which stays
C26_Witness ==
    /\ cpRet.op = "update"
    /\ cpRet.err
    /\ cpRet.saves = 1
    /\ channelCPs[cpRet.ch].ok
    /\ channelCPs[cpRet.ch].ts < cpRet.pos.ts
    /\ catalogCPs[cpRet.ch] = channelCPs[cpRet.ch]

\* ---------------------------------------------------------------------------
\* Initial states and inputs
\* ---------------------------------------------------------------------------
\* buildSegment: a new growing segment
buildSegment(collectionID, partitionID, channelName, isImporting) ==
    NewSegmentInfo([ZeroPB EXCEPT !.collectionID = collectionID,
                                  !.partitionID = partitionID,
                                  !.insertChannel = channelName,
                                  !.numOfRows = 0,
                                  !.state = "Growing",
                                  !.isImporting = isImporting])

\* a flushed L1 segment with one insert log and two delta logs
FlushedPB(id, channelName) ==
    [ZeroPB EXCEPT !.collectionID = 100,
                   !.partitionID = 10,
                   !.insertChannel = channelName,
                   !.state = "Flushed",
                   !.level = "L1",
                   !.numOfRows = 2,
                   !.maxRowNum = 4,
                   !.binlogs = <<FieldBinlog(0, <<Binlog(10 * id, 2)>>)>>,
                   !.statslogs = <<FieldBinlog(0, <<Binlog(10 * id + 5, 0)>>)>>,
                   !.deltalogs = <<FieldBinlog(0, <<Binlog(10 * id + 1, 0)>>),
                                   FieldBinlog(0, <<Binlog(10 * id + 2, 0)>>)>>,
                   !.startPosition = MkPos(IF id = 1 THEN 1 ELSE 0, 1),
                   !.dmlPosition = MkPos(IF id = 1 THEN 1 ELSE MaxTs, 1)]

\* what the catalog may hold when meta is constructed
InitCatalogs ==
    { EmptyMap,
      [i \in {1, 2} |-> FlushedPB(i, "ch1")],
      [i \in {1, 2} |-> IF i = 1 THEN PB(buildSegment(100, 10, "ch1", TRUE))
                        ELSE FlushedPB(2, "ch2")] }

\* reloadFromKV: the metrics rebuilt from the catalog
ReloadNumSegments(cat) ==
    [k \in MetricKeys |->
        Cardinality({i \in DOMAIN cat : cat[i].level = k[1] /\ cat[i].state = k[2]})]
RECURSIVE SumFlushedRows(_, _)
SumFlushedRows(cat, ids) ==
    IF ids = {} THEN 0
    ELSE LET i == CHOOSE x \in ids : TRUE IN
         (IF cat[i].state = "Flushed" THEN cat[i].numOfRows ELSE 0)
            + SumFlushedRows(cat, ids \ {i})

InitMetaFrom(catalogs) ==
    /\ catalog \in catalogs
    /\ segments = ReloadSegments(catalog)
    /\ numSegments = ReloadNumSegments(catalog)
    /\ storedRows = SumFlushedRows(catalog, DOMAIN catalog)
    /\ chanDeleted = {}
    /\ blobs = {}
    /\ nOps = 0
    /\ last = [op |-> "none", err |-> FALSE, io |-> <<>>]
    /\ mu = [writer |-> FALSE, readers |-> 0]
    /\ usi = NoUSI
    /\ seen = segments
    /\ committed = {segments}
InitMeta == InitMetaFrom(InitCatalogs)

AddSegmentChoices(id) ==
    { buildSegment(100, 10, "ch1", TRUE), NewSegmentInfo(FlushedPB(id, "ch1")) }

SegmentOperatorChoices ==
    { <<[kind |-> "SetMaxRowCount", value |-> 4]>>,
      <<[kind |-> "NoOpFalse", value |-> 0]>>,
      <<[kind |-> "NoOpTrue", value |-> 0], [kind |-> "SetMaxRowCount", value |-> 8]>>,
      <<[kind |-> "NoOpFalse", value |-> 0], [kind |-> "SetMaxRowCount", value |-> 8]>> }

StartPos(id, pos) == [segmentID |-> id, startPosition |-> pos]
CheckPoint(id, rows, pos) == [segmentID |-> id, numOfRows |-> rows, position |-> pos]

OperatorChoices ==
    { CreateL0Operator(100, 10, 3, "ch1"),
      CreateL0Operator(200, 10, 3, "ch1"),
      UpdateStatusOperator(1, "Flushing"),
      UpdateStatusOperator(1, "Dropped"),
      UpdateStatusOperator(3, "Dropped"),
      UpdateBinlogsOperator(1, <<FieldBinlog(0, <<Binlog(14, 1)>>)>>,
                               <<FieldBinlog(1, <<Binlog(16, 0)>>)>>,
                               <<FieldBinlog(0, <<Binlog(13, 0)>>)>>),
      UpdateStartPosition(<<StartPos(1, MkPos(MaxTs, 1)), StartPos(2, MkPos(1, 0))>>),
      UpdateCheckPointOperator(1, FALSE, <<CheckPoint(1, 3, MkPos(1, 1)),
                                           CheckPoint(2, 5, MkPos(MaxTs, 1))>>),
      UpdateCheckPointOperator(1, FALSE, <<CheckPoint(1, 4, MkPos(MaxTs, 1))>>),
      UpdateCheckPointOperator(2, TRUE, <<>>),
      UpdateCheckPointOperator(1, TRUE, <<CheckPoint(1, 4, MkPos(MaxTs, 1))>>),
      UpdateBinlogsOperator(2, <<FieldBinlog(1, <<Binlog(24, 1)>>),
                                 FieldBinlog(1, <<Binlog(25, 1)>>)>>,
                               <<>>,
                               <<FieldBinlog(0, <<Binlog(23, 0)>>)>>),
      UpdateCompactedOperator(2),
      UpdateStorageVersionOperator(2, 1) }

\* the operators tried in pairs within one call
PairOperators ==
    { UpdateStatusOperator(1, "Dropped"),
      UpdateStartPosition(<<StartPos(1, MkPos(MaxTs, 1)), StartPos(2, MkPos(1, 0))>>),
      CreateL0Operator(100, 10, 3, "ch1"),
      CreateL0Operator(200, 10, 3, "ch1"),
      UpdateBinlogsOperator(1, <<FieldBinlog(0, <<Binlog(14, 1)>>)>>,
                               <<FieldBinlog(1, <<Binlog(16, 0)>>)>>,
                               <<FieldBinlog(0, <<Binlog(13, 0)>>)>>) }
OperatorSingles == {<<o>> : o \in OperatorChoices}
OperatorPairs == {<<o1, o2>> : o1 \in PairOperators, o2 \in PairOperators}
OperatorLists == OperatorSingles \cup OperatorPairs

\* a segment flushed from the buffer when its channel is dropped
BufferedSegment(id) ==
    [id |-> id,
     binlogs |-> <<FieldBinlog(0, <<Binlog(10 * id + 7, 1)>>)>>,
     statslogs |-> <<>>,
     deltalogs |-> <<FieldBinlog(0, <<Binlog(10 * id + 8, 0)>>)>>,
     startPosition |-> NilPos,
     dmlPosition |-> MkPos(1, 1),
     currRows |-> 3]
DropChannelChoices == { <<BufferedSegment(1)>>, <<BufferedSegment(1), BufferedSegment(2)>> }

\* compaction plans: the sources with the first k field binlogs of their
\* current delta logs (what the plan captured when it was cut)
PlanSources == { <<1>>, <<1, 2>>, <<2, 5>> }
PlanOf(ids, k) ==
    [segmentBinlogs |->
        [i \in 1..Len(ids) |->
            [segmentID |-> ids[i],
             deltalogs |-> IF ids[i] \in DOMAIN segments
                           THEN SubSeq(segments[ids[i]].deltalogs, 1,
                                       IF k < Len(segments[ids[i]].deltalogs) THEN k
                                       ELSE Len(segments[ids[i]].deltalogs))
                           ELSE <<>>]],
     channel |-> "ch1",
     startTime |-> 1]
\* compaction results: one target segment
ResultChoices ==
    { [segmentID |-> 3, numOfRows |-> n,
       insertLogs |-> <<FieldBinlog(0, <<Binlog(50, n)>>)>>,
       field2StatslogPaths |-> <<FieldBinlog(0, <<Binlog(51, 0)>>)>>,
       deltalogs |-> d] :
         n \in {0, 2}, d \in {<<>>, <<FieldBinlog(0, <<Binlog(52, 0)>>)>>} }
\* the most external calls one completion makes
MaxCompactionCalls == 9

\* ---------------------------------------------------------------------------
\* The compaction trigger
\* ---------------------------------------------------------------------------
\* the configuration of the trigger: the fewest and the most segments of a
\* bin, the expansion rate 1.25 as a fraction, the capacity of the signal
\* channel
TriggerParams ==
    [minSegmentToMerge |-> 2, maxSegmentToMerge |-> 3,
     expansionRateNum |-> 5, expansionRateDen |-> 4, signalCap |-> 1]

\* the most trigger calls of a run
MaxTrigCalls == 2

\* compactionSignal
Signal(id, isForce, isGlobal, collectionID, segmentID) ==
    [id |-> id, isForce |-> isForce, isGlobal |-> isGlobal,
     collectionID |-> collectionID, segmentID |-> segmentID]
NoSignal == Signal(0, FALSE, FALSE, 0, 0)
NoEnv ==
    [full |-> FALSE, allocTs |-> TRUE,
     coll |-> [c \in Collections |-> [err |-> FALSE, hasKey |-> FALSE, value |-> ""]]]
NoRound ==
    [signal |-> NoSignal, env |-> NoEnv, plans |-> {}, err |-> FALSE, n |-> 0]

\* what Handler.GetCollection may answer: an error, or a collection whose
\* properties hold the auto-compaction key or not
CollectionAnswers ==
    { [err |-> TRUE, hasKey |-> FALSE, value |-> ""],
      [err |-> FALSE, hasKey |-> FALSE, value |-> ""],
      [err |-> FALSE, hasKey |-> TRUE, value |-> "true"],
      [err |-> FALSE, hasKey |-> TRUE, value |-> "false"],
      [err |-> FALSE, hasKey |-> TRUE, value |-> "bad_value"] }

\* strconv.ParseBool
ParseBool(str) ==
    IF str \in {"1", "t", "T", "TRUE", "true", "True"} THEN [ok |-> TRUE, value |-> TRUE]
    ELSE IF str \in {"0", "f", "F", "FALSE", "false", "False"} THEN [ok |-> TRUE, value |-> FALSE]
    ELSE [ok |-> FALSE, value |-> FALSE]

\* isCollectionAutoCompactionEnabled: on by default, off when the property
\* says false and when it cannot be parsed
isCollectionAutoCompactionEnabledAlways(coll) == TRUE
isCollectionAutoCompactionEnabled(coll) ==
    IF coll.hasKey
    THEN ParseBool(coll.value).ok /\ ParseBool(coll.value).value
    ELSE TRUE

\* the candidates of a signal, grouped by partition and channel: the
\* compactable segments of the signal's collection (of every collection when
\* the signal names none), for a signal of one segment those that share the
\* channel and the partition of that segment
CandidateGroups(segs, signal) ==
    LET ofColl(g) == {s \in g.segments :
                         signal.collectionID = 0 \/ s.info.collectionID = signal.collectionID}
        groups == {[g EXCEPT !.segments = ofColl(g)] :
                      g \in {h \in GetSegmentsChanPart(segs, "compactable") : ofColl(h) # {}}}
        segment == GetHealthySegment(segs, signal.segmentID)
    IN  IF signal.isGlobal THEN groups
        ELSE IF segment = NoSegment THEN {}
        ELSE {g \in GetSegmentsChanPart(segs, "compactable") :
                 /\ g.partitionID = segment.info.partitionID
                 /\ g.channelName = segment.info.insertChannel}

\* the ways to order candidates by size, the largest first
SizeOrders(segs, ids) ==
    LET n == Cardinality(ids) IN
    {o \in [1..n -> ids] :
        /\ \A i, j \in 1..n : i # j => o[i] # o[j]
        /\ \A i \in 1..n : \A j \in 1..n :
              i < j => segs[o[i]].numOfRows >= segs[o[j]].numOfRows}

\* the members of the set ids as they follow each other in order
Restrict(order, ids) == SelectSeq(order, LAMBDA i : i \in ids)

\* the rows of a bin
RECURSIVE BinRows(_, _)
BinRows(segs, bin) ==
    IF bin = <<>> THEN 0 ELSE segs[Head(bin)].numOfRows + BinRows(segs, Tail(bin))

\* maxRowNum x expansionRate, for the segment size of the bin's first segment
ExpansionLimit(maxRowNum) ==
    (maxRowNum * TriggerParams.expansionRateNum) \div TriggerParams.expansionRateDen

\* whether the segment id may join the bin without exceeding the row limit
FitsRows(segs, bin, id) ==
    BinRows(segs, bin) + segs[id].numOfRows <= ExpansionLimit(segs[bin[1]].maxRowNum)

\* the least member of a set of numbers
First(S) == CHOOSE k \in S : \A m \in S : k <= m

\* greedy packing: a candidate joins the first bin that has room for its rows
\* and for one more segment, else it opens a bin if it fits one alone, else it
\* is left over
RECURSIVE GreedyPack(_, _, _, _)
GreedyPack(segs, order, bins, left) ==
    IF order = <<>> THEN [bins |-> bins, left |-> left]
    ELSE LET id == Head(order)
             ks == {k \in 1..Len(bins) :
                       /\ Len(bins[k]) < TriggerParams.maxSegmentToMerge
                       /\ FitsRows(segs, bins[k], id)}
         IN  IF ks # {}
             THEN GreedyPack(segs, Tail(order),
                             [bins EXCEPT ![First(ks)] = Append(@, id)], left)
             ELSE IF segs[id].numOfRows <= ExpansionLimit(segs[id].maxRowNum)
             THEN GreedyPack(segs, Tail(order), Append(bins, <<id>>), left)
             ELSE GreedyPack(segs, Tail(order), bins, Append(left, id))

\* squeeze: a candidate without a bin is appended to the first bin whose rows
\* stay within the limit
RECURSIVE SqueezeAny(_, _, _)
SqueezeAny(segs, bins, left) ==
    IF left = <<>> \/ bins = <<>> THEN bins
    ELSE SqueezeAny(segs, [bins EXCEPT ![1] = Append(@, Head(left))], Tail(left))
RECURSIVE Squeeze(_, _, _)
Squeeze(segs, bins, left) ==
    IF left = <<>> THEN bins
    ELSE LET id == Head(left)
             ks == {k \in 1..Len(bins) : FitsRows(segs, bins[k], id)}
         IN  IF ks # {}
             THEN Squeeze(segs, [bins EXCEPT ![First(ks)] = Append(@, id)], Tail(left))
             ELSE Squeeze(segs, bins, Tail(left))

\* the members of the bins, bin after bin
RECURSIVE Flatten(_)
Flatten(bins) == IF bins = <<>> THEN <<>> ELSE Head(bins) \o Flatten(Tail(bins))

\* generatePlans, the merge policy on one group: pack, drop the bins with
\* fewer than minSegmentToMerge segments unless forced, squeeze what has no bin
generatePlans(segs, order, force) ==
    LET packed == GreedyPack(segs, order, <<>>, <<>>)
        enough(b) == force \/ Len(b) >= TriggerParams.minSegmentToMerge
        kept == SelectSeq(packed.bins, enough)
        dropped == Flatten(SelectSeq(packed.bins, LAMBDA b : ~enough(b)))
    IN  Squeeze(segs, kept, packed.left \o dropped)

\* SegmentsInfo.SetIsCompacting, for every segment of ids
SetSegmentCompacting(segs, ids, compacting) ==
    [i \in DOMAIN segs |->
        IF i \in ids THEN [segs[i] EXCEPT !.isCompacting = compacting] ELSE segs[i]]

\* the collection of a group (a channel belongs to one collection)
GroupCollection(g) == (CHOOSE s \in g.segments : TRUE).info.collectionID

\* what a round meets: whether the handler's task pool is full, whether the
\* allocator gives a timestamp, what GetCollection answers per collection
\* (what a round does not get to ask for is left at its default)
RoundEnvs ==
    {e \in [full : BOOLEAN, allocTs : BOOLEAN, coll : [Collections -> CollectionAnswers]] :
        /\ e.coll[200] \in {NoEnv.coll[200], [err |-> FALSE, hasKey |-> TRUE, value |-> "false"]}
        /\ e.full => e.allocTs
        /\ e.full \/ ~e.allocTs => e.coll = NoEnv.coll}

\* whether the round goes on to the merge policy for the collection c
RoundReachesIgnoringAlloc(signal, env, c) ==
    /\ ~env.full
    /\ ~env.coll[c].err
    /\ signal.isForce \/ isCollectionAutoCompactionEnabled(env.coll[c])
RoundReaches(signal, env, c) ==
    /\ ~env.full
    /\ env.allocTs
    /\ ~env.coll[c].err
    /\ signal.isForce \/ isCollectionAutoCompactionEnabled(env.coll[c])

\* the plans of one group: a MixCompaction plan per bin
GroupPlans(segs, g, order, force) ==
    LET bins == generatePlans(segs, Restrict(order, {s.id : s \in g.segments}), force)
    IN  {[type |-> "MixCompaction", channel |-> g.channelName,
          partitionID |-> g.partitionID, collectionID |-> GroupCollection(g),
          segments |-> bins[k]] : k \in 1..Len(bins)}

\* handleSignal / handleGlobalSignal: the plans the round submits
RoundPlans(segs, signal, env, order) ==
    UNION {GroupPlans(segs, g, order, signal.isForce) :
              g \in {h \in CandidateGroups(segs, signal) :
                        RoundReaches(signal, env, GroupCollection(h))}}

\* the segments of a set of plans
PlannedIDs(plans) == UNION {{p.segments[k] : k \in 1..Len(p.segments)} : p \in plans}

\* one round: every plan goes to compactionHandler.execCompactionPlan and its
\* segments are marked as compacting; the round returns no error
HandleRound(signal, env, order) ==
    LET plans == RoundPlans(segments, signal, env, order) IN
    /\ segments' = SetSegmentCompacting(segments, PlannedIDs(plans), TRUE)
    /\ submitted' = submitted \cup {[round |-> round.n + 1, plan |-> p] : p \in plans}
    /\ round' = [signal |-> signal, env |-> env,
                 plans |-> plans, err |-> FALSE, n |-> round.n + 1]
    /\ UNCHANGED <<cpVars, lsVars, rwVars, catalog, chanDeleted, blobs, numSegments,
                   storedRows, nOps, last>>

\* the orders by size of everything a round may look at
RoundOrders == SizeOrders(segments, {i \in DOMAIN segments : Selects("compactable", segments[i])})

\* a send that waits whenever the channel is full
SendSignalWaits(op, signal, block) ==
    LET room == Len(signals) < TriggerParams.signalCap
        outcome == IF room THEN "sent" ELSE "waiting"
    IN  /\ Len(trigCalls) < MaxTrigCalls
        /\ trigCalls' = Append(trigCalls, [op |-> op, id |-> signal.id, block |-> block,
                                           outcome |-> outcome])
        /\ signals' = IF room THEN Append(signals, signal) ELSE signals
        /\ sendq' = IF ~room THEN Append(sendq, signal) ELSE sendq
        /\ trigRet' = IF outcome = "waiting" THEN trigRet
                      ELSE [id |-> signal.id, err |-> FALSE]
        /\ UNCHANGED <<cpVars, lsVars, metaVars, rwVars, delivered, handling, round, submitted>>
\* the send of a signal into the channel: it is buffered when there is room;
\* otherwise a blocking sender waits in the channel's queue of senders and a
\* non-blocking one gives the signal up.  The call returns nil either way.
SendSignal(op, signal, block) ==
    LET room == Len(signals) < TriggerParams.signalCap
        outcome == IF room THEN "sent" ELSE IF block THEN "waiting" ELSE "dropped"
    IN  /\ Len(trigCalls) < MaxTrigCalls
        /\ trigCalls' = Append(trigCalls, [op |-> op, id |-> signal.id, block |-> block,
                                           outcome |-> outcome])
        /\ signals' = IF room THEN Append(signals, signal) ELSE signals
        /\ sendq' = IF ~room /\ block THEN Append(sendq, signal) ELSE sendq
        /\ trigRet' = IF outcome = "waiting" THEN trigRet
                      ELSE [id |-> signal.id, err |-> FALSE]
        /\ UNCHANGED <<cpVars, lsVars, metaVars, rwVars, delivered, handling, round, submitted>>

\* the id of the next signal (allocSignalID)
NextSignalID == Len(trigCalls) + 1

\* triggerSingleCompaction: a signal for one segment, not forced
triggerSingleCompaction(collectionID, segmentID, blockToSendSignal) ==
    SendSignal("triggerSingleCompaction",
               Signal(NextSignalID, FALSE, FALSE, collectionID, segmentID),
               blockToSendSignal)

\* triggerCompaction: a global signal, not forced; the send blocks
triggerCompaction ==
    SendSignal("triggerCompaction", Signal(NextSignalID, FALSE, TRUE, 0, 0), TRUE)

\* the consumer takes the oldest signal of the channel; the first waiting
\* sender, if any, then puts its signal into the buffer and returns
ReceiveSignal ==
    /\ handling = NoSignal
    /\ signals # <<>>
    /\ handling' = Head(signals)
    /\ delivered' = Append(delivered, Head(signals).id)
    /\ IF sendq # <<>>
       THEN /\ signals' = Append(Tail(signals), Head(sendq))
            /\ sendq' = Tail(sendq)
            /\ trigRet' = [id |-> Head(sendq).id, err |-> FALSE]
       ELSE /\ signals' = Tail(signals)
            /\ UNCHANGED <<sendq, trigRet>>
    /\ UNCHANGED <<cpVars, lsVars, metaVars, rwVars, trigCalls, round, submitted>>

\* the consumer handles the signal it took: handleGlobalSignal for a global
\* one, handleSignal otherwise
HandleReceived(env, order) ==
    /\ handling # NoSignal
    /\ HandleRound(handling, env, order)
    /\ handling' = NoSignal
    /\ UNCHANGED <<signals, sendq, delivered, trigCalls, trigRet>>

\* a forced signal handled by the caller itself: forceTriggerCompaction hands
\* a forced global signal to handleGlobalSignal, and a forced signal of one
\* segment goes to handleSignal
HandleForced(isGlobal, collectionID, segmentID, env, order) ==
    /\ Len(trigCalls) < MaxTrigCalls
    /\ trigCalls' = Append(trigCalls, [op |-> "forced", id |-> NextSignalID, block |-> FALSE,
                                       outcome |-> "handled"])
    /\ HandleRound(Signal(NextSignalID, TRUE, isGlobal, collectionID, segmentID), env, order)
    /\ UNCHANGED <<signals, sendq, delivered, handling, trigRet>>

\* the trigger before its first signal
InitTrigger ==
    /\ signals = <<>>
    /\ sendq = <<>>
    /\ delivered = <<>>
    /\ handling = NoSignal
    /\ trigCalls = <<>>
    /\ trigRet = [id |-> 0, err |-> FALSE]
    /\ round = NoRound
    /\ submitted = {}

\* a flushed L1 segment of a collection with a number of rows
SizedPB(id, collectionID, channelName, rows) ==
    [FlushedPB(id, channelName) EXCEPT !.collectionID = collectionID, !.numOfRows = rows]

\* what the catalog may hold when the trigger starts: segments of 2, 1, 1 and
\* 1 rows on one channel; two collections; a segment beyond the row limit next
\* to an importing one
TriggerCatalogs ==
    { [i \in 1..4 |-> SizedPB(i, 100, "ch1", IF i = 1 THEN 2 ELSE 1)],
      [i \in 1..4 |-> IF i <= 2 THEN SizedPB(i, 100, "ch1", IF i = 1 THEN 3 ELSE 1)
                      ELSE SizedPB(i, 200, "ch2", 2)],
      [i \in 1..4 |-> IF i = 1 THEN SizedPB(1, 100, "ch1", 6)
                      ELSE IF i = 3 THEN PB(buildSegment(100, 10, "ch1", TRUE))
                      ELSE SizedPB(i, 100, "ch1", 2)] }

\* ---------------------------------------------------------------------------
\* Properties of the compaction trigger
\* ---------------------------------------------------------------------------
\* a step in which a handling round runs
RoundRan == round'.n # round.n

\* the round met a collection c whose auto-compaction property is "false" or
\* does not parse
AutoCompactionOff(r, c) ==
    /\ ~r.env.coll[c].err
    /\ r.env.coll[c].hasKey
    /\ r.env.coll[c].value \in {"false", "bad_value"}

\* the environment of the round r, with the auto-compaction property "true"
\* wherever it was "false"
WithAutoCompaction(r) ==
    [r.env EXCEPT !.coll = [c \in Collections |->
        IF r.env.coll[c].hasKey /\ r.env.coll[c].value = "false"
        THEN [r.env.coll[c] EXCEPT !.value = "true"] ELSE r.env.coll[c]]]

C28_AllocTsFailure ==
    [][RoundRan /\ ~round'.env.allocTs =>
        /\ ~round'.err
        /\ round'.plans = {}
        /\ submitted' = submitted
        /\ segments' = segments]_vars

\* a forced round that had candidates and no timestamp
C28_Witness ==
    /\ round.n > 0
    /\ round.signal.isForce
    /\ ~round.env.allocTs
    /\ CandidateGroups(segments, round.signal) # {}
    /\ submitted = {}

\* C29: the source segments of every plan of a round that is not forced have,
\* together, at most maxRowNum x expansionRate rows, squeezed segments
\* included.
C29_PlanRowsWithinExpansion ==
    [][RoundRan /\ ~round'.signal.isForce =>
        \A p \in round'.plans : \A k \in 1..Len(p.segments) :
            BinRows(segments, p.segments) * TriggerParams.expansionRateDen
                <= segments[p.segments[k]].maxRowNum * TriggerParams.expansionRateNum]_vars

\* a plan of a round that is not forced holds a squeezed segment: it has more
\* segments than a bin takes and more rows than one segment may have
C29_Witness ==
    /\ ~round.signal.isForce
    /\ \E p \in round.plans :
          /\ Len(p.segments) > TriggerParams.maxSegmentToMerge
          /\ BinRows(segments, p.segments) > segments[p.segments[1]].maxRowNum

\* the ids of a sequence of signals, and the members of a sequence
SignalIDs(q) == {q[k].id : k \in 1..Len(q)}
Range(q) == {q[k] : k \in 1..Len(q)}

\* a step in which a send is called without blocking on a full channel
NonBlockingCallOnFull ==
    /\ Len(trigCalls') = Len(trigCalls) + 1
    /\ ~trigCalls'[Len(trigCalls')].block
    /\ Len(signals) = TriggerParams.signalCap

MetricBuffers ==
    { EmptyMutation,
      [stateChange |-> [k \in MetricKeys |-> IF k = <<"L1", "Growing">> THEN -1
                                             ELSE IF k = <<"L1", "Flushed">> THEN 1 ELSE 0],
       rowCountChange |-> 2, rowCountAccChange |-> 2] }

\* segMetricMutation.append called on a buffer
AppendCall(mm, oldState, newState, level, rowCountUpdate) ==
    /\ last' = [op |-> "append", err |-> FALSE, io |-> <<>>, mm |-> mm,
                oldState |-> oldState, newState |-> newState, level |-> level,
                rowCountUpdate |-> rowCountUpdate,
                post |-> append(mm, oldState, newState, level, rowCountUpdate)]
    /\ UNCHANGED <<cpVars, lsVars, trigVars, rwVars, segments, catalog, chanDeleted, blobs,
                   numSegments, storedRows, nOps>>

\* Flushing or Flushed
InFlush(state) == state \in {"Flushing", "Flushed"}

\* C31: append decrements the count of (level, oldState) and increments that
\* of (level, newState) when the states differ; a change into Flushing or
\* Flushed from neither adds the rows to the live-row and to the accumulated
\* delta, otherwise a change into Dropped subtracts them from the live-row
\* delta only; nothing else of the buffer changes.
C31_AppendDeltas ==
    last.op = "append" =>
        LET differ == last.oldState # last.newState
            newFlush == InFlush(last.newState) /\ ~InFlush(last.oldState)
            newDrop == ~newFlush /\ last.newState = "Dropped" /\ last.oldState # "Dropped"
        IN  /\ \A k \in MetricKeys :
                  last.post.stateChange[k] = last.mm.stateChange[k]
                      + (IF differ /\ k = <<last.level, last.newState>> THEN 1 ELSE 0)
                      - (IF differ /\ k = <<last.level, last.oldState>> THEN 1 ELSE 0)
            /\ last.post.rowCountChange = last.mm.rowCountChange
                      + (IF newFlush THEN last.rowCountUpdate ELSE 0)
                      - (IF newDrop THEN last.rowCountUpdate ELSE 0)
            /\ last.post.rowCountAccChange = last.mm.rowCountAccChange
                      + (IF newFlush THEN last.rowCountUpdate ELSE 0)

\* a flushed segment with rows is dropped, on a buffer that held deltas
C31_Witness ==
    /\ last.op = "append"
    /\ last.oldState = "Flushed" /\ last.newState = "Dropped"
    /\ last.rowCountUpdate > 0
    /\ last.mm # EmptyMutation
    /\ last.post.rowCountChange = last.mm.rowCountChange - last.rowCountUpdate

\* ---------------------------------------------------------------------------
\* Properties of the operators of UpdateSegmentsInfo
\* ---------------------------------------------------------------------------
\* the logs of the field f in a list of field binlogs, entry after entry
RECURSIVE FieldLogs(_, _)
FieldLogs(fieldBinlogs, f) ==
    IF fieldBinlogs = <<>> THEN <<>>
    ELSE (IF Head(fieldBinlogs).fieldID = f THEN Head(fieldBinlogs).binlogs ELSE <<>>)
            \o FieldLogs(Tail(fieldBinlogs), f)

\* the field ids of a list of field binlogs
FieldIDs(fieldBinlogs) == {fieldBinlogs[i].fieldID : i \in 1..Len(fieldBinlogs)}

\* a step in which UpdateSegmentsInfo returns from a successful call with the
\* single operator UpdateBinlogs
UpdateBinlogsDone ==
    /\ last'.op = "UpdateSegmentsInfo" /\ nOps' = nOps + 1
    /\ ~last'.err /\ ~last'.skipped
    /\ Len(last'.operators) = 1
    /\ last'.operators[1].kind = "UpdateBinlogs"

\* field by field, the logs afterwards are the previous ones followed by the new ones
AppendedPerField(before, new, after) ==
    \A f \in FieldIDs(before) \cup FieldIDs(new) \cup FieldIDs(after) :
        FieldLogs(after, f) = FieldLogs(before, f) \o FieldLogs(new, f)

\* the statement of C32 as it was made: for every field, the logs of the
\* field afterwards are the segment's previous logs of the field followed by
\* the new ones
C32_Original ==
    [][UpdateBinlogsDone =>
        LET o == last'.operators[1] IN
        /\ AppendedPerField(segments[o.id].binlogs, o.binlogs, segments'[o.id].binlogs)
        /\ AppendedPerField(segments[o.id].statslogs, o.statslogs, segments'[o.id].statslogs)
        /\ AppendedPerField(segments[o.id].deltalogs, o.deltalogs, segments'[o.id].deltalogs)]_vars

\* the new logs of a field go, in their order, to the end of the first entry
\* of the field; the other entries stay; the fields that had no entry get one
\* each, after the previous entries
MergedIntoFirst(before, new, after) ==
    LET n == Len(before)
        first(i) == \A j \in 1..(i - 1) : before[j].fieldID # before[i].fieldID
    IN  /\ Len(after) = n + Cardinality(FieldIDs(new) \ FieldIDs(before))
        /\ \A i \in 1..n :
              /\ after[i].fieldID = before[i].fieldID
              /\ after[i].binlogs =
                    before[i].binlogs
                        \o (IF first(i) THEN FieldLogs(new, before[i].fieldID) ELSE <<>>)
        /\ {after[i].fieldID : i \in (n + 1)..Len(after)} = FieldIDs(new) \ FieldIDs(before)
        /\ \A i \in (n + 1)..Len(after) :
              after[i].binlogs = FieldLogs(new, after[i].fieldID)

\* C32 (amended): UpdateBinlogs appends the new logs of every field, in their
\* given order, to the first entry the segment has for that field; further
\* entries of the same field and the entries of fields the update does not
\* mention are unchanged; a field without an entry gets a new one at the end.
C32_UpdateBinlogsMerge ==
    [][UpdateBinlogsDone =>
        LET o == last'.operators[1] IN
        /\ MergedIntoFirst(segments[o.id].binlogs, o.binlogs, segments'[o.id].binlogs)
        /\ MergedIntoFirst(segments[o.id].statslogs, o.statslogs, segments'[o.id].statslogs)
        /\ MergedIntoFirst(segments[o.id].deltalogs, o.deltalogs, segments'[o.id].deltalogs)]_vars

\* an update has put two logs of a new field into one new entry and a delta
\* log into the first of two entries of its field
C32_Witness ==
    /\ last.op = "UpdateSegmentsInfo" /\ ~last.err /\ ~last.skipped
    /\ Len(last.operators) = 1
    /\ last.operators[1].kind = "UpdateBinlogs"
    /\ LET o == last.operators[1] IN
       /\ o.id \in DOMAIN segments
       /\ \E i \in 1..Len(segments[o.id].binlogs) :
             /\ segments[o.id].binlogs[i].fieldID = 1
             /\ Len(segments[o.id].binlogs[i].binlogs) = 2
       /\ Len(segments[o.id].deltalogs) = 2
       /\ Len(segments[o.id].deltalogs[1].binlogs) = 2
       /\ segments[o.id].deltalogs[2].fieldID = segments[o.id].deltalogs[1].fieldID

\* a step in which UpdateSegmentsInfo returns from a successful call with the
\* single operator UpdateCheckPoint
UpdateCheckPointDone ==
    /\ last'.op = "UpdateSegmentsInfo" /\ nOps' = nOps + 1
    /\ ~last'.err /\ ~last'.skipped
    /\ Len(last'.operators) = 1
    /\ last'.operators[1].kind = "UpdateCheckPoint"

\* the checkpoint k of the operator o is applied to the record seg: it is for
\* the operator's segment and later than the record's position and than every
\* checkpoint for the segment that comes before it
CheckPointApplies(seg, o, k) ==
    /\ o.checkpoints[k].segmentID = o.id
    /\ seg.dmlPosition.ok => o.checkpoints[k].position.ts > seg.dmlPosition.ts
    /\ \A j \in 1..(k - 1) :
          o.checkpoints[j].segmentID = o.id =>
              o.checkpoints[k].position.ts > o.checkpoints[j].position.ts

\* the greatest member of a set of numbers
Greatest(S) == CHOOSE k \in S : \A m \in S : m <= k

\* C33: UpdateCheckPoint(id, importing, checkpoints) with importing sets
\* numOfRows to the current rows and keeps dmlPosition; without, it takes
\* numOfRows and position of the last checkpoint for id that is not stale and
\* ignores the checkpoints of other segments; then the number of rows counted
\* from the binlogs replaces numOfRows if it is positive and differs from the
\* current rows.  Nothing else of the record changes.
C33_UpdateCheckPoint ==
    [][UpdateCheckPointDone =>
        LET o == last'.operators[1]
            before == segments[o.id]
            after == segments'[o.id]
            applied == {k \in 1..Len(o.checkpoints) : CheckPointApplies(before, o, k)}
            rows == IF o.importing THEN before.currRows
                    ELSE IF applied = {} THEN before.numOfRows
                    ELSE o.checkpoints[Greatest(applied)].numOfRows
            position == IF o.importing \/ applied = {} THEN before.dmlPosition
                        ELSE o.checkpoints[Greatest(applied)].position
            count == CalcRowCountFromBinLog(before)
        IN  /\ after.dmlPosition = position
            /\ after.numOfRows = IF count > 0 /\ count # before.currRows THEN count ELSE rows
            /\ after = [before EXCEPT !.numOfRows = after.numOfRows,
                                      !.dmlPosition = after.dmlPosition]]_vars

\* an importing update has set the rows back to the current rows although it
\* carried a later checkpoint, and the position stayed
C33_Witness ==
    /\ last.op = "UpdateSegmentsInfo" /\ ~last.err /\ ~last.skipped
    /\ Len(last.operators) = 1
    /\ last.operators[1].kind = "UpdateCheckPoint"
    /\ last.operators[1].importing
    /\ LET o == last.operators[1] IN
       /\ o.id \in DOMAIN segments
       /\ \E k \in 1..Len(o.checkpoints) :
             /\ o.checkpoints[k].segmentID = o.id
             /\ o.checkpoints[k].position.ts > segments[o.id].dmlPosition.ts
             /\ o.checkpoints[k].numOfRows # segments[o.id].numOfRows
       /\ segments[o.id].numOfRows = segments[o.id].currRows
       /\ nOps = 2

\* ---------------------------------------------------------------------------
\* Properties of the positions of a compaction target
\* ---------------------------------------------------------------------------
\* pos is a position of least timestamp among the non-nil ones of positions,
\* and nil only when they are all nil
IsMinPosition(pos, positions) ==
    LET given == {p \in positions : p.ok} IN
    IF given = {} THEN ~pos.ok
    ELSE pos \in given /\ \A p \in given : pos.ts <= p.ts

\* C34: the startPosition and the dmlPosition of the target a completion
\* installs are positions of least timestamp among the non-nil start and dml
\* positions of the sources, nil only when every source has none; the target's
\* checkpoint is not later than that of any source that has one.
C34_TargetMinPositions ==
    [][Returns("CompleteCompactionMutation") /\ ~last'.err =>
          LET t == segments'[last'.given.segmentID]
              sources == PlanSourceSet(last'.plan)
          IN  /\ IsMinPosition(t.startPosition, {segments[s].startPosition : s \in sources})
              /\ IsMinPosition(t.dmlPosition, {segments[s].dmlPosition : s \in sources})
              /\ \A s \in sources :
                    segments[s].dmlPosition.ok => t.dmlPosition.ts <= segments[s].dmlPosition.ts]_vars

\* a target of two sources: the second source has the earlier start position
\* and the first the earlier checkpoint, and the target has both
C34_Witness ==
    /\ last.op = "CompleteCompactionMutation"
    /\ ~last.err
    /\ Len(last.plan.segmentBinlogs) = 2
    /\ LET a == segments[last.plan.segmentBinlogs[1].segmentID]
           b == segments[last.plan.segmentBinlogs[2].segmentID]
           t == segments[last.given.segmentID]
       IN  /\ b.startPosition.ok /\ a.startPosition.ok
           /\ b.startPosition.ts < a.startPosition.ts
           /\ a.dmlPosition.ts < b.dmlPosition.ts
           /\ t.startPosition = b.startPosition
           /\ t.dmlPosition = a.dmlPosition

\* ---------------------------------------------------------------------------
\* Properties of CreateL0Operator
\* ---------------------------------------------------------------------------
\* the CreateL0 operators of a call that name id
CreateL0Of(operators, id) ==
    {i \in 1..Len(operators) : operators[i].kind = "CreateL0" /\ operators[i].id = id}

\* no other operator of the call looks up id or a segment of level L0
OnlyCreateL0Touches(operators, id) ==
    \A i \in 1..Len(operators) :
        operators[i].kind # "CreateL0" =>
            \A t \in OperatorTargets(operators[i]) :
                t # id /\ (t \in DOMAIN segments => segments[t].level # "L0")

\* segment id as its last CreateL0 operator of the call describes it
CreatedL0(operators, id) ==
    LET o == operators[CHOOSE i \in CreateL0Of(operators, id) :
                          \A j \in CreateL0Of(operators, id) : j <= i]
    IN  /\ segments'[id].collectionID = o.collectionID
        /\ segments'[id].partitionID = o.partitionID
        /\ segments'[id].insertChannel = o.channel
        /\ segments'[id].level = "L0"
        /\ segments'[id].state = "Flushed"
        /\ segments'[id].numOfRows = 0

L0Flushed == <<"L0", "Flushed">>

\* C35: in an UpdateSegmentsInfo call that succeeds, a CreateL0 operator whose
\* id is not in the segment map installs a segment of level L0, state Flushed
\* and zero rows and adds one to the (L0, Flushed) counter; with the id in the
\* map, in whatever state, the record and the metrics stay as they are; a call
\* of CreateL0 operators alone is never abandoned.
C35_CreateL0 ==
    [][Returns("UpdateSegmentsInfo") =>
          LET ops == last'.operators IN
          /\ (\A i \in 1..Len(ops) : ops[i].kind = "CreateL0") => ~last'.skipped
          /\ \A id \in SegIDs :
                (/\ CreateL0Of(ops, id) # {}
                 /\ OnlyCreateL0Touches(ops, id)
                 /\ ~last'.err /\ ~last'.skipped) =>
                    IF id \notin DOMAIN segments
                    THEN /\ id \in DOMAIN segments'
                         /\ CreatedL0(ops, id)
                         /\ numSegments'[L0Flushed]
                               = numSegments[L0Flushed] + Cardinality(CreateL0Of(ops, id))
                         /\ \A k \in MetricKeys \ {L0Flushed} :
                               (\A i \in 1..Len(ops) : ops[i].kind = "CreateL0") =>
                                   numSegments'[k] = numSegments[k]
                    ELSE /\ segments'[id] = segments[id]
                         /\ numSegments'[L0Flushed] = numSegments[L0Flushed]
                         /\ (\A i \in 1..Len(ops) : ops[i].kind = "CreateL0") =>
                               numSegments' = numSegments /\ storedRows' = storedRows]_vars

\* segment 3 created by a CreateL0 for collection 100 and counted once; the
\* CreateL0 for collection 200 that came after it left it as it was
C35_Witness ==
    /\ last.op = "UpdateSegmentsInfo"
    /\ ~last.err /\ ~last.skipped
    /\ last.operators = <<CreateL0Operator(200, 10, 3, "ch1")>>
    /\ 3 \in DOMAIN segments
    /\ segments[3].level = "L0"
    /\ segments[3].state = "Flushed"
    /\ segments[3].collectionID = 100
    /\ numSegments[L0Flushed] = 1

\* ---------------------------------------------------------------------------
\* FilterInIndexedSegments
\* ---------------------------------------------------------------------------
\* a field of a collection schema
Field(fieldID, dataType) == [fieldID |-> fieldID, dataType |-> dataType]
IsVectorType(dataType) == dataType \in {"BinaryVector", "FloatVector"}

\* what handler.GetCollection answers for a collection: an error, or the
\* fields of its schema
NoCollection == [err |-> TRUE, fields |-> <<>>]
Collection(fields) == [err |-> FALSE, fields |-> fields]
GetCollectionAnswers ==
    { NoCollection,
      Collection(<<Field(1, "Int64")>>),
      Collection(<<Field(1, "Int64"), Field(2, "FloatVector")>>),
      Collection(<<Field(2, "FloatVector"), Field(3, "BinaryVector")>>) }
VecFields == {2, 3}
IndexStates == {"Finished", "InProgress"}

\* the vector fields recorded for a collection: none when its schema could
\* not be loaded
vecFieldIDs(answer) ==
    IF answer.err THEN {}
    ELSE {answer.fields[i].fieldID :
             i \in {j \in 1..Len(answer.fields) : IsVectorType(answer.fields[j].dataType)}}

\* FilterInIndexedSegments: of the given segments, in their order, those in a
\* flush state or Dropped with no recorded vector field whose index is not
\* Finished.  handler maps a collection to its GetCollection answer and
\* indexState a segment and a field to GetSegmentIndexStateOnField's state.
RECURSIVE FilterInIndexedSegments(_, _, _, _)
FilterInIndexedSegments(handler, indexState, segs, ids) ==
    IF ids = <<>> THEN <<>>
    ELSE LET segment == segs[Head(ids)]
             rest == FilterInIndexedSegments(handler, indexState, segs, Tail(ids))
             hasUnindexedVecField ==
                 \E fieldID \in vecFieldIDs(handler[segment.collectionID]) :
                     indexState[<<Head(ids), fieldID>>] # "Finished"
         IN  IF ~isFlushState(segment.state) /\ segment.state # "Dropped" THEN rest
             ELSE IF ~hasUnindexedVecField THEN <<Head(ids)>> \o rest
             ELSE rest

\* the segment ids of the map in increasing order
RECURSIVE Ascending(_)
Ascending(S) ==
    IF S = {} THEN <<>>
    ELSE LET m == CHOOSE x \in S : \A y \in S : x <= y IN <<m>> \o Ascending(S \ {m})

\* FilterInIndexedSegments called on the segments of the map
FilterCall(handler, indexState) ==
    /\ last' = [op |-> "FilterInIndexedSegments", err |-> FALSE, io |-> <<>>,
                handler |-> handler, indexState |-> indexState,
                post |-> FilterInIndexedSegments(handler, indexState, segments,
                                                 Ascending(DOMAIN segments))]
    /\ UNCHANGED <<cpVars, lsVars, trigVars, rwVars, segments, catalog, chanDeleted, blobs,
                   numSegments, storedRows, nOps>>

\* C36 as stated: FilterInIndexedSegments returns a segment exactly when the
\* schema of its collection was loaded and every vector field of it has an
\* index in state Finished on the segment.
C36_Original ==
    last.op = "FilterInIndexedSegments" =>
        \A id \in DOMAIN segments :
            (\E i \in 1..Len(last.post) : last.post[i] = id)
                <=> LET answer == last.handler[segments[id].collectionID] IN
                    /\ ~answer.err
                    /\ \A i \in 1..Len(answer.fields) :
                          IsVectorType(answer.fields[i].dataType) =>
                              last.indexState[<<id, answer.fields[i].fieldID>>] = "Finished"

\* ---------------------------------------------------------------------------
\* Properties of the compaction candidate pool
\* ---------------------------------------------------------------------------
\* meta.SetSegmentCompacting
SetSegmentCompactingCall(segmentID, compacting) ==
    /\ segments' = SetSegmentCompacting(segments, {segmentID}, compacting)
    /\ Finish([op |-> "SetSegmentCompacting", id |-> segmentID, compacting |-> compacting,
               err |-> FALSE, io |-> <<>>])
    /\ UNCHANGED <<catalog, chanDeleted, blobs, numSegments, storedRows>>

\* GetCompactableSegmentGroupByCollection: the candidates by collection
GetCompactableSegmentGroupByCollection(segs) ==
    [c \in {segs[i].collectionID : i \in {j \in DOMAIN segs : Selects("compactable", segs[j])}} |->
        {i \in DOMAIN segs : Selects("compactable", segs[i]) /\ segs[i].collectionID = c}]

\* C37: the candidate pool holds only segments that are healthy, Flushed, not
\* importing and not marked isCompacting; every segment a trigger round puts
\* into a plan is of the pool and leaves the round marked, so a segment that
\* is marked when a round starts is in none of the round's plans.
C37_PoolExcludesCompacting ==
    /\ \A c \in DOMAIN GetCompactableSegmentGroupByCollection(segments) :
          \A id \in GetCompactableSegmentGroupByCollection(segments)[c] :
              /\ isSegmentHealthy(segments[id])
              /\ segments[id].state = "Flushed"
              /\ ~segments[id].isImporting
              /\ ~segments[id].isCompacting
    /\ [][round'.n # round.n =>
             \A id \in PlannedIDs(round'.plans) :
                 /\ id \in DOMAIN segments
                 /\ id \in UNION {GetCompactableSegmentGroupByCollection(segments)[c] :
                                     c \in DOMAIN GetCompactableSegmentGroupByCollection(segments)}
                 /\ ~segments[id].isCompacting
                 /\ segments'[id].isCompacting]_vars

\* the second round found nothing to plan: the segments of the first round's
\* plan are still marked
C37_Witness ==
    /\ round.n = 2
    /\ round.plans = {}
    /\ round.signal.isForce
    /\ \E s \in submitted :
          /\ s.round = 1
          /\ \A k \in 1..Len(s.plan.segments) : segments[s.plan.segments[k]].isCompacting
          /\ \E k \in 1..Len(s.plan.segments) :
                segments[s.plan.segments[k]].collectionID = round.signal.collectionID

\* ---------------------------------------------------------------------------
\* Properties of droppedAt
\* ---------------------------------------------------------------------------
\* the segments an operation made Dropped
NewlyDropped ==
    {id \in DOMAIN segments' :
        /\ segments'[id].state = "Dropped"
        /\ (id \in DOMAIN segments => segments[id].state # "Dropped")}

\* C38 as stated: every segment an operation installs in state Dropped has a
\* nonzero droppedAt.
C38_Original == [][\A id \in NewlyDropped : segments'[id].droppedAt # 0]_vars

\* ---------------------------------------------------------------------------
\* Properties of a retried completion
\* ---------------------------------------------------------------------------
\* the caller of a failed completion calls again with the plan and the result
\* it holds
RetryCompaction(failAt) ==
    /\ last.op = "CompleteCompactionMutation"
    /\ last.err
    /\ CompleteCompactionMutation(last.plan, last.result, failAt)

\* how often the delta log l is among logs
Occurrences(logs, l) ==
    Cardinality({i \in 1..Len(FlattenLogs(logs)) : FlattenLogs(logs)[i].logID = l})

\* C39 as stated: a completion that fails at the catalog write leaves its
\* result argument as it was given, and the retry with the same plan and
\* result installs a target that has every late delta log exactly once.
C39_Original ==
    [][Returns("CompleteCompactionMutation") =>
          /\ (last'.err /\ last'.io # <<>> /\ last'.io[Len(last'.io)] = AlterCall) =>
                last'.result = last'.given
          /\ (~last'.err /\ last.op = "CompleteCompactionMutation" /\ last.err
                 /\ last'.plan = last.plan /\ last'.given = last.result) =>
                \A id \in PlanSourceSet(last'.plan) :
                    \A l \in LateDeltaIDs(segments, last'.plan, id) :
                        Occurrences(segments'[last'.given.segmentID].deltalogs, l) = 1]_vars

\* ---------------------------------------------------------------------------
\* LocalSegment: Release beside the operations that read the native pointer
\* ---------------------------------------------------------------------------
\* the concurrent callers of one segment
SegCallers == {1, 2, 3}
\* the most calls of a run
MaxSegCalls == 4

NoSegCall == [op |-> "none", arg |-> 0, afterClear |-> FALSE, taken |-> FALSE, ret |-> "none"]

InitLocalSegmentOf(types) ==
    /\ ptr = TRUE
    /\ ptrLock = [writer |-> FALSE, readers |-> 0]
    /\ lsType \in types
    /\ lsPc = [p \in SegCallers |-> "idle"]
    /\ lsCall = [p \in SegCallers |-> NoSegCall]
    /\ native = [deleted |-> 0, cleared |-> 0]
    /\ lsNCalls = 0
InitLocalSegment == InitLocalSegmentOf({"Growing"})

\* a caller enters an operation
SegEnter(p, op, arg, pc, ret) ==
    /\ lsPc[p] = "idle"
    /\ lsNCalls < MaxSegCalls
    /\ lsNCalls' = lsNCalls + 1
    /\ lsCall' = [lsCall EXCEPT ![p] = [op |-> op, arg |-> arg, afterClear |-> ~ptr,
                                        taken |-> FALSE, ret |-> ret]]
    /\ lsPc' = [lsPc EXCEPT ![p] = pc]
\* a caller leaves it
SegReturn(p, ret) ==
    /\ lsCall' = [lsCall EXCEPT ![p].ret = ret]
    /\ lsPc' = [lsPc EXCEPT ![p] = "idle"]

\* Release(scope): called
ReleaseCall(p, scope) ==
    /\ SegEnter(p, "Release", scope, "lock", "none")
    /\ UNCHANGED <<ptr, ptrLock, lsType, native>>
\* s.ptrLock.Lock(): waits until every read operation has finished
ReleaseLock(p) ==
    /\ lsPc[p] = "lock"
    /\ CanLock(ptrLock)
    /\ ptrLock' = [ptrLock EXCEPT !.writer = TRUE]
    /\ lsPc' = [lsPc EXCEPT ![p] = "swap"]
    /\ UNCHANGED <<ptr, lsType, lsCall, native, lsNCalls>>
\* ptr = s.ptr; s.ptr = nil; s.ptrLock.Unlock()
ReleaseSwapKeepsPtr(p) ==
    /\ lsPc[p] = "swap"
    /\ lsCall' = [lsCall EXCEPT ![p].taken = ptr]
    /\ ptrLock' = [ptrLock EXCEPT !.writer = FALSE]
    /\ lsPc' = [lsPc EXCEPT ![p] = "free"]
    /\ UNCHANGED <<ptr, lsType, native, lsNCalls>>
ReleaseSwap(p) ==
    /\ lsPc[p] = "swap"
    /\ lsCall' = [lsCall EXCEPT ![p].taken = ptr]
    /\ ptr' = FALSE
    /\ ptrLock' = [ptrLock EXCEPT !.writer = FALSE]
    /\ lsPc' = [lsPc EXCEPT ![p] = "free"]
    /\ UNCHANGED <<lsType, native, lsNCalls>>
\* nothing for a nil pointer; C.ClearSegmentData for the data scope, else
\* C.DeleteSegment
ReleaseFree(p) ==
    /\ lsPc[p] = "free"
    /\ native' = IF ~lsCall[p].taken THEN native
                 ELSE IF lsCall[p].arg = "Data"
                      THEN [native EXCEPT !.cleared = @ + 1]
                      ELSE [native EXCEPT !.deleted = @ + 1]
    /\ SegReturn(p, "done")
    /\ UNCHANGED <<ptr, ptrLock, lsType, lsNCalls>>

\* RLock: called
RLockCall(p) ==
    /\ SegEnter(p, "RLock", 0, "rlock", "none")
    /\ UNCHANGED <<ptr, ptrLock, lsType, native>>
\* s.ptrLock.RLock(); with a nil pointer RUnlock and the segment-released
\* error, else nil and the caller holds the read lock
RLockAcquire(p) ==
    /\ lsPc[p] = "rlock"
    /\ CanRLock(ptrLock)
    /\ IF ptr
       THEN /\ ptrLock' = [ptrLock EXCEPT !.readers = @ + 1]
            /\ lsCall' = [lsCall EXCEPT ![p].ret = "nil"]
            /\ lsPc' = [lsPc EXCEPT ![p] = "holding"]
       ELSE /\ SegReturn(p, "segment released")
            /\ UNCHANGED ptrLock
    /\ UNCHANGED <<ptr, lsType, native, lsNCalls>>
\* RUnlock, by the caller whose RLock returned nil
RUnlock(p) ==
    /\ lsPc[p] = "holding"
    /\ ptrLock' = [ptrLock EXCEPT !.readers = @ - 1]
    /\ lsPc' = [lsPc EXCEPT ![p] = "idle"]
    /\ UNCHANGED <<ptr, lsType, lsCall, native, lsNCalls>>

\* Insert (arg: the number of rows), Delete (arg: the number of primary keys),
\* LoadFieldData: called.  Insert into a segment that is not growing returns
\* its own error and Delete of no key returns nil, both before the lock.
ReadOpCall(p, op, arg) ==
    /\ op \in {"Insert", "Delete", "LoadFieldData"}
    /\ IF op = "Insert" /\ lsType # "Growing"
       THEN SegEnter(p, op, arg, "idle", "unexpected segmentType")
       ELSE IF op = "Delete" /\ arg = 0
       THEN SegEnter(p, op, arg, "idle", "nil")
       ELSE SegEnter(p, op, arg, "oplock", "none")
    /\ UNCHANGED <<ptr, ptrLock, lsType, native>>
\* s.ptrLock.RLock(); defer RUnlock; with a nil pointer the segment-released
\* error, else the native calls on s.ptr begin
ReadOpAcquire(p) ==
    /\ lsPc[p] = "oplock"
    /\ CanRLock(ptrLock)
    /\ IF ptr
       THEN /\ ptrLock' = [ptrLock EXCEPT !.readers = @ + 1]
            /\ lsPc' = [lsPc EXCEPT ![p] = "using"]
            /\ UNCHANGED lsCall
       ELSE /\ SegReturn(p, "segment released")
            /\ UNCHANGED ptrLock
    /\ UNCHANGED <<ptr, lsType, native, lsNCalls>>
\* the native calls are through (with or without an error of their own); the
\* deferred RUnlock
ReadOpDone(p, ret) ==
    /\ lsPc[p] = "using"
    /\ ret \in {"nil", "native error"}
    /\ ptrLock' = [ptrLock EXCEPT !.readers = @ - 1]
    /\ SegReturn(p, ret)
    /\ UNCHANGED <<ptr, lsType, native, lsNCalls>>

SegStep(A) == A /\ UNCHANGED <<cpVars, metaVars, rwVars, trigVars>>

\* ---------------------------------------------------------------------------
\* Properties of LocalSegment.Release
\* ---------------------------------------------------------------------------
\* the callers that hold the read lock on a valid pointer
SegReaders == {p \in SegCallers : lsPc[p] \in {"holding", "using"}}

\* the native segment is deleted at most once, and neither deleted nor
\* cleared while a caller holds the read lock on the pointer
FreedOnceUnused ==
    /\ native.deleted <= 1
    /\ native.deleted = 1 => SegReaders = {}
    /\ [][native' # native => SegReaders = {}]_vars

\* the calls that started with the pointer cleared and have returned
ReturnedAfterClear(ops) ==
    {p \in SegCallers : /\ lsPc[p] = "idle"
                        /\ lsCall[p].op \in ops
                        /\ lsCall[p].afterClear}

Init == InitCP /\ InitMeta /\ InitTrigger /\ InitLocalSegment

\* the segment operations leave the checkpoint manager alone, and conversely
CPStep(A) == A /\ UNCHANGED <<metaVars, rwVars, trigVars, lsVars>>

NextCP ==
    \/ \E p \in Procs, ch \in Channels : \E pos \in ArgPositions(p) :
         CPStep(UpdateChannelCheckpointCall(p, ch, pos))
    \/ \E p \in Procs : CPStep(UpdateChannelCheckpointLock(p))
    \/ \E p \in Procs : CPStep(UpdateChannelCheckpointCheck(p))
    \/ \E p \in Procs : CPStep(UpdateChannelCheckpointSave(p))
    \/ \E p \in Procs : CPStep(UpdateChannelCheckpointInstall(p))
    \/ \E p \in Procs, ch \in Channels : CPStep(GetChannelCheckpoint(p, ch))
    \/ \E p \in Procs, ch \in Channels : CPStep(DropChannelCheckpointLock(p, ch))
    \/ \E p \in Procs : CPStep(DropChannelCheckpointCatalog(p))
    \/ \E p \in Procs : CPStep(DropChannelCheckpointRemove(p))

\* the channel-checkpoint manager under concurrent callers
InitCPOnly == Init /\ catalog = EmptyMap
SpecCP == InitCPOnly /\ [][NextCP]_vars

\* another call may start
MayCall == nOps < MaxOps

Next ==
    \/ \E id \in SegIDs, fail \in BOOLEAN : \E seg \in AddSegmentChoices(id) :
         MayCall /\ AddSegment(id, seg, fail)
    \/ \E id \in SegIDs, fail \in BOOLEAN : MayCall /\ DropSegment(id, fail)
    \/ \E id \in SegIDs, st \in {"Growing", "Flushed", "Dropped"}, fail \in BOOLEAN :
         MayCall /\ SetState(id, st, fail)
    \/ \E id \in {1, 3}, ops \in SegmentOperatorChoices, fail \in BOOLEAN :
         MayCall /\ UpdateSegment(id, ops, fail)
    \/ \E id \in SegIDs, fail \in BOOLEAN : MayCall /\ UnsetIsImporting(id, fail)
    \/ \E id \in SegIDs : MayCall /\ SetLastExpire(id, Now)
    \/ \E ops \in OperatorSingles, fail \in BOOLEAN :
         MayCall /\ UpdateSegmentsInfo(ops, fail)
    \/ \E ch \in Channels, bufs \in DropChannelChoices, failAt \in {"none", "save", "mark"} :
         MayCall /\ UpdateDropChannelSegmentInfo(ch, bufs, failAt)
    \/ \E ids \in {<<1, 2>>, <<2, 5>>}, res \in {r \in ResultChoices : r.deltalogs = <<>>},
          failAt \in 0..MaxCompactionCalls :
         MayCall /\ CompleteCompactionMutation(PlanOf(ids, 1), res, failAt)

\* every mutating operation of meta, each one step under the write lock
Spec == Init /\ [][Next]_vars

NextUSI ==
    \E ops \in OperatorLists, fail \in BOOLEAN : MayCall /\ UpdateSegmentsInfo(ops, fail)

\* UpdateSegmentsInfo with one and with two operators
SpecUSI == Init /\ [][NextUSI]_vars

NextCompact ==
    \/ \E ids \in PlanSources, k \in 1..2, res \in ResultChoices,
          failAt \in 0..MaxCompactionCalls :
         MayCall /\ CompleteCompactionMutation(PlanOf(ids, k), res, failAt)
    \/ \E o \in PairOperators :
         MayCall /\ o.kind = "UpdateBinlogs" /\ UpdateSegmentsInfo(<<o>>, FALSE)

\* compaction completions, with flushes that add delta logs in between
SpecCompact == Init /\ [][NextCompact]_vars

NextRW ==
    \/ \E ops \in OperatorPairs : UpdateSegmentsInfoCall(ops, FALSE)
    \/ \E o \in PairOperators, fail \in BOOLEAN : UpdateSegmentsInfoCall(<<o>>, fail)
    \/ UpdateSegmentsInfoLock
    \/ UpdateSegmentsInfoOperators
    \/ UpdateSegmentsInfoAlter
    \/ UpdateSegmentsInfoInstall
    \/ UpdateSegmentsInfoUnlock
    \/ GetAllSegmentsRLock
    \/ GetAllSegmentsRead

\* UpdateSegmentsInfo statement by statement, beside a reader of the segment map
SpecRW == Init /\ [][NextRW]_vars

\* compaction results for two target ids, with more than zero rows and none
ResultsFor(targets) ==
    { [segmentID |-> t, numOfRows |-> n,
       insertLogs |-> <<FieldBinlog(0, <<Binlog(50, n)>>)>>,
       field2StatslogPaths |-> <<FieldBinlog(0, <<Binlog(51, 0)>>)>>,
       deltalogs |-> <<>>] : t \in targets, n \in {0, 2} }

NextCompactTo ==
    \E ids \in PlanSources, res \in ResultsFor({3, 4}), failAt \in 0..MaxCompactionCalls :
        MayCall /\ CompleteCompactionMutation(PlanOf(ids, 1), res, failAt)

\* completions that install different targets, one after the other
SpecCompactTo == Init /\ [][NextCompactTo]_vars

\* calls that touch several segments
SeveralSegmentsOperators ==
    { <<UpdateStatusOperator(1, "Dropped"),
        UpdateStartPosition(<<StartPos(1, MkPos(MaxTs, 1)), StartPos(2, MkPos(1, 0))>>)>>,
      <<CreateL0Operator(100, 10, 3, "ch1"), UpdateStatusOperator(1, "Flushing")>> }

NextWriters ==
    \/ \E ops \in SeveralSegmentsOperators, fail \in BOOLEAN : UpdateSegmentsInfoCall(ops, fail)
    \/ UpdateSegmentsInfoLock
    \/ UpdateSegmentsInfoOperators
    \/ UpdateSegmentsInfoAlter
    \/ UpdateSegmentsInfoInstall
    \/ UpdateSegmentsInfoUnlock
    \/ \E ch \in Channels, failAt \in {"none", "save", "mark"} :
         UpdateDropChannelSegmentInfoCall(ch, <<BufferedSegment(1), BufferedSegment(2)>>, failAt)
    \/ UpdateDropChannelSegmentInfoLock
    \/ UpdateDropChannelSegmentInfoSave
    \/ UpdateDropChannelSegmentInfoMark
    \/ UpdateDropChannelSegmentInfoInstall
    \/ UpdateDropChannelSegmentInfoUnlock
    \/ \E ids \in {<<1, 2>>, <<2, 5>>}, res \in {r \in ResultChoices : r.deltalogs = <<>>},
          failAt \in 0..MaxCompactionCalls :
         CompleteCompactionMutationCall(PlanOf(ids, 1), res, failAt)
    \/ CompleteCompactionMutationLock
    \/ CompleteCompactionMutationCopy
    \/ CompleteCompactionMutationAlter
    \/ CompleteCompactionMutationInstall
    \/ CompleteCompactionMutationUnlock
    \/ GetAllSegmentsRLock
    \/ GetAllSegmentsRead

\* the operations that install several segments, statement by statement,
\* beside a reader
SpecWriters == Init /\ [][NextWriters]_vars

NextTrigger ==
    \/ triggerSingleCompaction(100, 1, FALSE)
    \/ triggerCompaction
    \/ ReceiveSignal
    \/ \E env \in RoundEnvs, order \in RoundOrders : HandleReceived(env, order)
    \/ \E g \in BOOLEAN, env \in RoundEnvs, order \in RoundOrders :
         HandleForced(g, 100, IF g THEN 0 ELSE 1, env, order)

\* the compaction trigger: callers that send signals, the consumer that
\* handles them, and forced rounds
InitSpecTrigger == InitCP /\ InitMetaFrom(TriggerCatalogs) /\ InitTrigger /\ InitLocalSegment
SpecTrigger == InitSpecTrigger /\ [][NextTrigger]_vars

\* what the rounds of the consumer meet while the senders are looked at
QuietEnvs == {e \in RoundEnvs : e.allocTs /\ e.coll = NoEnv.coll}

NextSignals ==
    \/ \E id \in {1, 5}, block \in BOOLEAN : triggerSingleCompaction(100, id, block)
    \/ triggerCompaction
    \/ ReceiveSignal
    \/ \E env \in QuietEnvs, order \in RoundOrders : HandleReceived(env, order)

\* the step in which the handling of a received signal returns to the loop of
\* the consumer
ConsumerReturns == handling # NoSignal /\ handling' = NoSignal

\* the senders of signals beside a consumer that keeps running: it receives
\* when there is a signal, and a round it started comes to its end
SpecSignals ==
    /\ InitSpecTrigger
    /\ [][NextSignals]_vars
    /\ WF_vars(ReceiveSignal)
    /\ WF_handling(ConsumerReturns)

NextAppend ==
    \E mm \in MetricBuffers, oldState \in States, newState \in States, level \in Levels,
       rowCountUpdate \in {0, 2} :
        AppendCall(mm, oldState, newState, level, rowCountUpdate)

\* segMetricMutation.append on every pair of states
SpecAppend == Init /\ [][NextAppend]_vars


\* catalogs in which the id of the CreateL0 operators is taken
L0Catalogs ==
    InitCatalogs \cup
    { [i \in {3} |-> [FlushedPB(3, "ch1") EXCEPT !.state = "Dropped", !.droppedAt = 1]],
      [i \in {1, 3} |-> FlushedPB(i, "ch1")] }

NextCreateL0 ==
    \E ops \in {l \in OperatorLists : \E i \in 1..Len(l) : l[i].kind = "CreateL0"},
       fail \in BOOLEAN :
        MayCall /\ UpdateSegmentsInfo(ops, fail)

\* UpdateSegmentsInfo calls with a CreateL0 operator
InitSpecCreateL0 == InitCP /\ InitMetaFrom(L0Catalogs) /\ InitTrigger /\ InitLocalSegment
SpecCreateL0 == InitSpecCreateL0 /\ [][NextCreateL0]_vars


\* segments of two collections, Flushed, Growing and Dropped
IndexCatalogs ==
    { [i \in {1, 2} |-> IF i = 1 THEN FlushedPB(1, "ch1")
                        ELSE [FlushedPB(2, "ch2") EXCEPT !.collectionID = 200]],
      [i \in {1, 2} |-> IF i = 1 THEN [FlushedPB(1, "ch1") EXCEPT !.state = "Growing"]
                        ELSE [FlushedPB(2, "ch1") EXCEPT !.state = "Dropped", !.droppedAt = 1]] }

NextIndexed ==
    \E handler \in [Collections -> GetCollectionAnswers],
       indexState \in [{1, 2} \X VecFields -> IndexStates] :
        FilterCall(handler, indexState)

\* FilterInIndexedSegments on every schema answer and index state
InitSpecIndexed == InitCP /\ InitMetaFrom(IndexCatalogs) /\ InitTrigger /\ InitLocalSegment
SpecIndexed == InitSpecIndexed /\ [][NextIndexed]_vars


NextPool ==
    \/ \E c \in Collections, env \in QuietEnvs, order \in RoundOrders :
         HandleForced(TRUE, c, 0, env, order)
    \/ \E id \in {1, 2, 3}, compacting \in BOOLEAN :
         MayCall /\ SetSegmentCompactingCall(id, compacting)

\* forced trigger rounds, and callers that set and clear the compacting mark
SpecPool == InitSpecTrigger /\ [][NextPool]_vars


NextRetry ==
    \/ \E ids \in PlanSources, res \in ResultChoices, failAt \in 0..MaxCompactionCalls :
         MayCall /\ CompleteCompactionMutation(PlanOf(ids, 1), res, failAt)
    \/ \E failAt \in 0..MaxCompactionCalls : MayCall /\ RetryCompaction(failAt)

\* compaction completions and their retries
SpecRetry == Init /\ [][NextRetry]_vars


\* the read operations called, with their number of rows or keys
ReadOpChoices == {<<"Insert", 1>>, <<"Delete", 0>>, <<"Delete", 1>>, <<"LoadFieldData", 1>>}

NextLocalSegment ==
    \/ \E p \in SegCallers, scope \in {"All", "Data"} : SegStep(ReleaseCall(p, scope))
    \/ \E p \in SegCallers : SegStep(ReleaseLock(p))
    \/ \E p \in SegCallers : SegStep(ReleaseSwap(p))
    \/ \E p \in SegCallers : SegStep(ReleaseFree(p))
    \/ \E p \in SegCallers : SegStep(RLockCall(p))
    \/ \E p \in SegCallers : SegStep(RLockAcquire(p))
    \/ \E p \in SegCallers : SegStep(RUnlock(p))
    \/ \E p \in SegCallers, call \in ReadOpChoices : SegStep(ReadOpCall(p, call[1], call[2]))
    \/ \E p \in SegCallers : SegStep(ReadOpAcquire(p))
    \/ \E p \in SegCallers, ret \in {"nil", "native error"} : SegStep(ReadOpDone(p, ret))

\* one segment of either type, released beside its readers
InitSpecLocalSegment ==
    InitCP /\ InitMetaFrom({EmptyMap}) /\ InitTrigger /\ InitLocalSegmentOf({"Growing", "Sealed"})
SpecLocalSegment == InitSpecLocalSegment /\ [][NextLocalSegment]_vars

====
